---- MODULE Spec2Model ----
(***************************************************************************)
(* Requirement simplification, required-course expansion and the           *)
(* pattern-aware semester scheduler of scheduler/create_schedule.py.       *)
(*                                                                         *)
(* Requirement nodes are records tagged by `type`, as the pydantic models  *)
(* of the source are; the catalog (`courses`) is a function from course    *)
(* code to ParsedCourse; the run of main() is a state machine over `pc`.   *)
(*                                                                         *)
(* The credit-capped pipeline of create_schedule.py (topological_sort and  *)
(* generate_semesters, as its main runs them) is a second state machine,   *)
(* over `legacy_pc`.                                                       *)
(***************************************************************************)
EXTENDS Integers, Sequences, FiniteSets, TLC

VARIABLES
    courses,        \* the catalog: code -> [requisite, pattern, min_credits]
    config,         \* Config: program requisite, completed_course_work, placements, gpa, level, start
    pc,             \* position of main(): "expand", "loop", "done", "failed", "idle"
    all_required,   \* main: set of required course codes
    processed,      \* main: courses whose prerequisite tree was simplified
    new_courses,    \* main: courses to process in the next expander iteration
    iteration,      \* main: expander iteration counter
    prereq_map,     \* schedule_courses: course -> set of prerequisite codes
    reverse_map,    \* schedule_courses: prerequisite -> set of dependents
    in_degree,      \* schedule_courses: course -> number of unplaced prerequisites
    available,      \* schedule_courses: courses ready to be taken
    remaining,      \* schedule_courses: courses not yet placed
    semesters,      \* schedule_courses: list of lists of course codes
    year,           \* schedule_courses: term clock, year
    is_spring,      \* schedule_courses: term clock, season
    error,          \* the exception that ended the run ("" while none)
    error_info,     \* what the exception carries: the course codes and the count it names
    report,         \* main: the pattern violations its report of the schedule logged
    clock_log,      \* history: the (is_spring, year) under which each semester was appended
    sim_pc,         \* simplifier harness: "in", "once", "twice", "idle"
    sim_req,        \* simplifier harness: the input requirement node
    sim_out1,       \* simplifier harness: simplify_requirement(sim_req)
    sim_out2,       \* simplifier harness: simplify_requirement(sim_out1)
    simplify_count, \* history: code -> number of times the expander simplified its tree
    legacy_pc,      \* position of the credit-capped pipeline: "sort", "generate", "done", "exit", "idle"
    legacy_args,    \* credit-capped pipeline: required_courses, course_by_code, prerequisites, credits_per_semester
    graph,          \* credit-capped pipeline: CourseGraph.requires, course -> set of prerequisites
    topo,           \* credit-capped pipeline: what topological_sort returned
    gen,            \* credit-capped pipeline: the locals of generate_semesters
    fn_pc,          \* function harness: "in", "out", "idle"
    fn_in,          \* function harness: the arguments of the function under study
    fn_out          \* function harness: what the functions returned

\* the variables of the credit-capped pipeline of src/create_schedule.py
legacy_vars == <<legacy_pc, legacy_args, graph, topo, gen>>

\* the variables of the function harness
fn_vars == <<fn_pc, fn_in, fn_out>>

\* the variables of main and schedule_courses of src/scheduler/create_schedule.py
main_vars == <<courses, config, pc, all_required, processed, new_courses, iteration,
               prereq_map, reverse_map, in_degree, available, remaining, semesters,
               year, is_spring, error, error_info, report, clock_log, simplify_count>>

\* the variables of the simplifier harness
sim_vars == <<sim_pc, sim_req, sim_out1, sim_out2>>

vars == <<main_vars, sim_vars, legacy_vars, fn_vars>>

-----------------------------------------------------------------------------
(* Bounds of the model *)

\* longest child list of a composite requirement node in the simplifier harness
MaxChildren == 2

\* number of term-clock advances the scheduler model follows before it stops
MaxTerms == 8

\* number of expander iterations the model follows before it stops
MaxIterations == 6

\* a value for the safety bound of the expander, which the source does not have:
\* the number of passes after which C21 expects the fatal error
SafetyBound == 2

-----------------------------------------------------------------------------
(* Requirement nodes *)

Empty == [type |-> "NONE"]

Course(c) == [type |-> "COURSE", course |-> c, timing |-> "COMPLETED"]

CourseT(c, t) == [type |-> "COURSE", course |-> c, timing |-> t]

GPA(g) == [type |-> "GPA", gpa |-> g]

Placement(s, l) == [type |-> "PLACEMENT", subject |-> s, level |-> l]

Permission(a) == [type |-> "PERMISSION", authority |-> a]

Level(l) == [type |-> "LEVEL", level |-> l]

Other(o) == [type |-> "OTHER", other |-> o]

And(rs) == [type |-> "AND", requirements |-> rs]

Or(rs) == [type |-> "OR", requirements |-> rs]

CreditsFrom(c, rs) == [type |-> "CREDITS_FROM", credits_required |-> c, requirements |-> rs]

ChooseN(n, rs) == [type |-> "CHOOSE_N", choose |-> n, requirements |-> rs]

\* the node kinds that carry a `requirements` list
Composite == {"AND", "OR", "CREDITS_FROM", "CHOOSE_N"}

\* Level._level_order
level_order == [freshman |-> 0, sophomore |-> 1, junior |-> 2, senior |-> 3]

\* a rank that puts a level that is no number below every number
Placement_rank_unranked(level) ==
    CASE level = "0" -> 0
      [] level = "1" -> 1
      [] level = "2" -> 2
      [] level = "3" -> 3
      [] OTHER -> 0 - 1

\* Placement._rank: int(level) when level.isdigit(), else 0
Placement_rank(level) ==
    CASE level = "0" -> 0
      [] level = "1" -> 1
      [] level = "2" -> 2
      [] level = "3" -> 3
      [] OTHER -> 0

-----------------------------------------------------------------------------
(* Catalog lookup *)

\* get_course(code) is not None
has_course(code) == code \in DOMAIN courses

\* get_course(code), for a code the catalog holds
get_course(code) == courses[code]

-----------------------------------------------------------------------------
(* Course-code collection *)

RECURSIVE extract_course_codes(_)
extract_course_codes(req) ==
    (IF req.type = "COURSE" THEN {req.course} ELSE {})
    \cup
    (IF req.type \in Composite
        THEN UNION {extract_course_codes(req.requirements[i]) : i \in DOMAIN req.requirements}
        ELSE {})

RECURSIVE collect_node_course_codes(_)
collect_node_course_codes(req) ==
    IF req.type = "COURSE" THEN {req.course}
    ELSE IF req.type \in Composite
        THEN UNION {collect_node_course_codes(req.requirements[i]) : i \in DOMAIN req.requirements}
        ELSE {}

\* collect_all_course_codes applied to a list of nodes
collect_all_course_codes(reqs) ==
    UNION {collect_node_course_codes(reqs[i]) : i \in DOMAIN reqs}

-----------------------------------------------------------------------------
(* simplify_requirement *)

RECURSIVE simplify_requirement(_, _, _, _, _)

\* completed_credits without the test of line 654: every catalog course of the
\* subtree counts, completed or not
RECURSIVE completed_credits_all(_, _)
completed_credits_all(codes, completed_courses) ==
    IF codes = {} THEN 0
    ELSE LET code == CHOOSE c \in codes : TRUE
             rest == completed_credits_all(codes \ {code}, completed_courses)
         IN IF has_course(code) THEN get_course(code).min_credits + rest ELSE rest

\* total_credits of lines 652-661: min_credits of the completed codes the catalog holds
RECURSIVE completed_credits(_, _)
completed_credits(codes, completed_courses) ==
    IF codes = {} THEN 0
    ELSE LET code == CHOOSE c \in codes : TRUE
             rest == completed_credits(codes \ {code}, completed_courses)
         IN IF code \in completed_courses /\ has_course(code)
               THEN get_course(code).min_credits + rest
               ELSE rest

\* resolve_and without the test of line 579: satisfied children are kept
RECURSIVE resolve_and_keep_none(_, _, _, _, _)
resolve_and_keep_none(requirements, current_gpa, placements, completed_courses, level) ==
    IF requirements = <<>> THEN <<>>
    ELSE <<simplify_requirement(Head(requirements), current_gpa, placements,
                                completed_courses, level)>>
         \o resolve_and_keep_none(Tail(requirements), current_gpa, placements,
                                  completed_courses, level)

RECURSIVE resolve_and(_, _, _, _, _)
resolve_and(requirements, current_gpa, placements, completed_courses, level) ==
    IF requirements = <<>> THEN <<>>
    ELSE LET simp == simplify_requirement(Head(requirements), current_gpa, placements,
                                          completed_courses, level)
             rest == resolve_and(Tail(requirements), current_gpa, placements,
                                 completed_courses, level)
         IN IF simp.type # "NONE" THEN <<simp>> \o rest ELSE rest

\* the loop of resolve_or with its accumulator simplified_children
RECURSIVE resolve_or_loop(_, _, _, _, _, _)
resolve_or_loop(requirements, simplified_children, current_gpa, placements, completed_courses, level) ==
    IF requirements = <<>> THEN simplified_children
    ELSE LET simp == simplify_requirement(Head(requirements), current_gpa, placements,
                                          completed_courses, level)
         IN IF simp.type = "NONE" THEN <<>>
            ELSE resolve_or_loop(Tail(requirements), Append(simplified_children, simp),
                                 current_gpa, placements, completed_courses, level)

resolve_or(requirements, current_gpa, placements, completed_courses, level) ==
    resolve_or_loop(requirements, <<>>, current_gpa, placements, completed_courses, level)

\* simplify_course without the catalog lookup of lines 602-605
simplify_course_completed_only(req, completed_courses) ==
    IF req.course \in completed_courses THEN Empty ELSE req

simplify_course(req, completed_courses) ==
    IF req.course \in completed_courses THEN Empty
    ELSE IF ~has_course(req.course) THEN Empty
    ELSE req

\* simplify_credits_from returning the node with its threshold as it was
simplify_credits_from_same_threshold(req, completed_courses) ==
    LET codes == extract_course_codes(req)
        total_credits == completed_credits(codes, completed_courses)
    IN IF total_credits >= req.credits_required THEN Empty
       ELSE CreditsFrom(req.credits_required, req.requirements)

simplify_credits_from(req, completed_courses) ==
    LET codes == extract_course_codes(req)
        total_credits == completed_credits(codes, completed_courses)
    IN IF total_credits >= req.credits_required THEN Empty
       ELSE CreditsFrom(req.credits_required - total_credits, req.requirements)

\* simplify_choose_n with > in place of the >= of line 675
simplify_choose_n_strict(req, completed_courses) ==
    LET codes == extract_course_codes(req)
        completed_in_subtree == {code \in codes : code \in completed_courses}
        count == Cardinality(completed_in_subtree)
    IN IF count > req.choose THEN Empty
       ELSE ChooseN(req.choose - count, req.requirements)

simplify_choose_n(req, completed_courses) ==
    LET codes == extract_course_codes(req)
        completed_in_subtree == {code \in codes : code \in completed_courses}
        count == Cardinality(completed_in_subtree)
    IN IF count >= req.choose THEN Empty
       ELSE ChooseN(req.choose - count, req.requirements)

\* a PERMISSION branch that takes the permission as granted
simplify_permission_granted(req) == Empty

\* lines 625-628: a PERMISSION node is never satisfied
simplify_permission(req) == req

simplify_requirement(req, current_gpa, placements, completed_courses, level) ==
    CASE req.type = "NONE" -> req
      [] req.type = "COURSE" -> simplify_course(req, completed_courses)
      [] req.type = "GPA" -> IF current_gpa >= req.gpa THEN Empty ELSE req
      [] req.type = "PLACEMENT" ->
            IF \E i \in DOMAIN placements :
                   /\ placements[i].subject = req.subject
                   /\ Placement_rank(placements[i].level) >= Placement_rank(req.level)
               THEN Empty ELSE req
      [] req.type = "LEVEL" ->
            IF level_order[level.level] >= level_order[req.level] THEN Empty ELSE req
      [] req.type = "PERMISSION" -> simplify_permission(req)
      [] req.type = "OTHER" -> Empty
      [] req.type = "AND" ->
            LET simplified_children == resolve_and(req.requirements, current_gpa, placements,
                                                   completed_courses, level)
            IN IF simplified_children = <<>> THEN Empty ELSE And(simplified_children)
      [] req.type = "OR" ->
            LET simplified_children == resolve_or(req.requirements, current_gpa, placements,
                                                  completed_courses, level)
            IN IF simplified_children = <<>> THEN Empty ELSE Or(simplified_children)
      [] req.type = "CREDITS_FROM" -> simplify_credits_from(req, completed_courses)
      [] req.type = "CHOOSE_N" -> simplify_choose_n(req, completed_courses)
      [] OTHER -> req

\* simplify_requirement under the student state of config, as main calls it
simplify(req) ==
    simplify_requirement(req, config.gpa, config.placements,
                         config.completed_course_work, config.level)

-----------------------------------------------------------------------------
(* Offering patterns *)

OfferingPattern ==
    {"summer", "fall_and_spring", "fall", "spring", "fall_even", "fall_odd",
     "spring_even", "spring_odd", "summer_even", "summer_odd", "irregular",
     "arranged", "deactivated", "unknown"}

\* str.lower on the spellings that the inputs use
lower(pattern) ==
    CASE pattern = "FALL" -> "fall"
      [] pattern = "Junior" -> "junior"
      [] pattern = "Spring_Odd" -> "spring_odd"
      [] pattern = "DEACTIVATED" -> "deactivated"
      [] OTHER -> pattern

\* pattern_allows without the tests of the year
pattern_allows_any_year(pattern, spring, yr) ==
    IF pattern = "" THEN TRUE
    ELSE LET p == lower(pattern)
         IN CASE p \in {"summer", "summer_even", "summer_odd", "deactivated"} -> FALSE
              [] p \in {"fall", "fall_even", "fall_odd"} -> ~spring
              [] p \in {"spring", "spring_even", "spring_odd"} -> spring
              [] OTHER -> TRUE

\* pattern_allows; "" stands for a missing pattern (None or the empty string)
pattern_allows(pattern, spring, yr) ==
    IF pattern = "" THEN TRUE
    ELSE LET p == lower(pattern)
         IN CASE p = "summer" -> FALSE
              [] p = "fall_and_spring" -> TRUE
              [] p = "fall" -> ~spring
              [] p = "spring" -> spring
              [] p = "fall_even" -> (~spring) /\ (yr % 2 = 0)
              [] p = "fall_odd" -> (~spring) /\ (yr % 2 = 1)
              [] p = "spring_even" -> spring /\ (yr % 2 = 0)
              [] p = "spring_odd" -> spring /\ (yr % 2 = 1)
              [] p = "summer_even" -> FALSE
              [] p = "summer_odd" -> FALSE
              [] p = "irregular" -> TRUE
              [] p = "arranged" -> TRUE
              [] p = "deactivated" -> FALSE
              [] OTHER -> TRUE

-----------------------------------------------------------------------------
(* main: the required courses of the program *)

\* the first component (required_courses) of get_required_courses
RECURSIVE get_required_courses(_)
get_required_courses(requirements) ==
    IF requirements = <<>> THEN <<>>
    ELSE LET requirement == Head(requirements)
             rest == get_required_courses(Tail(requirements))
         IN CASE requirement.type = "COURSE" -> <<requirement>> \o rest
              [] requirement.type = "AND" ->
                    get_required_courses(requirement.requirements) \o rest
              [] OTHER -> rest

\* initial_courses of line 781, as the set line 785 makes of it
initial_courses ==
    LET required_courses == get_required_courses(config.program.requisite)
    IN {required_courses[i].course : i \in DOMAIN required_courses}

\* an expander pass that reads the raw trees instead of the simplified ones
newly_discovered_from_raw(to_process) ==
    UNION {collect_all_course_codes(get_course(course_code).requisite) :
               course_code \in {c \in to_process : has_course(c)}}

\* codes one expander pass discovers from the courses it processes (lines 796-818)
newly_discovered_from(to_process) ==
    UNION {extract_course_codes(simplify(And(get_course(course_code).requisite))) :
               course_code \in {c \in to_process : has_course(c)}}

\* expand_step that forgets what it has seen: every course of new_courses is
\* processed and every discovered code is new
expand_step_no_memory(new, done, required) ==
    LET to_process == new
        newly_discovered == newly_discovered_from(to_process)
    IN [processed |-> done \cup to_process,
        simplified |-> {c \in to_process : has_course(c)},
        new_courses |-> newly_discovered,
        all_required |-> required \cup newly_discovered]

\* the body of the while loop (lines 794-822) on new_courses, processed and
\* all_required; simplified is the set of courses whose tree line 808 simplified
expand_step(new, done, required) ==
    LET to_process == new \ done
        newly_discovered == newly_discovered_from(to_process)
    IN [processed |-> done \cup to_process,
        simplified |-> {c \in to_process : has_course(c)},
        new_courses |-> newly_discovered \ required,
        all_required |-> required \cup newly_discovered]

\* one iteration of the fixed-point loop of lines 790-831
ExpandIteration ==
    /\ pc = "expand"
    /\ new_courses # {}
    /\ iteration <= MaxIterations
    /\ LET step == expand_step(new_courses, processed, all_required)
       IN /\ processed' = step.processed
          /\ new_courses' = step.new_courses
          /\ all_required' = step.all_required
          /\ simplify_count' = [c \in DOMAIN simplify_count |->
                                   simplify_count[c] + (IF c \in step.simplified THEN 1 ELSE 0)]
    /\ iteration' = iteration + 1
    /\ UNCHANGED <<courses, config, pc, prereq_map, reverse_map, in_degree, available,
                   remaining, semesters, year, is_spring, error, error_info, report, clock_log,
                   sim_pc, sim_req, sim_out1, sim_out2, legacy_vars, fn_vars>>

-----------------------------------------------------------------------------
(* schedule_courses *)

\* a required set that keeps the completed courses
required_set_with_completed == all_required

\* all_required as schedule_courses rebinds it at line 698
required_set == all_required \ config.completed_course_work

\* a prereq_set taken from the simplified tree, as the expander reads it
prereq_set_of_simplified(course, required) ==
    {c \in extract_course_codes(simplify(And(get_course(course).requisite))) : c \in required}

\* prereq_set of line 714
prereq_set_of(course, required) ==
    {c \in collect_all_course_codes(get_course(course).requisite) : c \in required}

\* prereq_map after the loop of lines 704-718: courses missing from the catalog get no key
build_prereq_map(required) ==
    [course \in {c \in required : has_course(c)} |-> prereq_set_of(course, required)]

\* a reverse_map that names every course as a dependent of every prerequisite
build_reverse_map_of_all(pm) ==
    [prereq \in UNION {pm[c] : c \in DOMAIN pm} |-> DOMAIN pm]

\* reverse_map after the loop of lines 704-718
build_reverse_map(pm) ==
    [prereq \in UNION {pm[c] : c \in DOMAIN pm} |-> {c \in DOMAIN pm : prereq \in pm[c]}]

\* initial_available without the in-degree test: every required course is ready
initial_available_all(required, deg) == required

\* available of line 724
initial_available(required, deg) == {c \in required : deg[c] = 0}

\* what an exception that names neither a course nor a count carries
no_info == [codes |-> {}, count |-> 0]

\* KeyError(course): the key the dict lookup of line 721 missed
key_error(course) == [codes |-> {course}, count |-> 0]

\* steps 0-2 of schedule_courses (lines 696-732); line 721 raises KeyError for a
\* required course that line 708 skipped
BuildGraph ==
    /\ pc = "expand"
    /\ new_courses = {}
    /\ LET required == required_set
           pm == build_prereq_map(required)
       IN /\ prereq_map' = pm
          /\ reverse_map' = build_reverse_map(pm)
          /\ IF \E c \in required : c \notin DOMAIN pm
                THEN /\ pc' = "failed"
                     /\ error' = "KeyError"
                     /\ error_info' \in {key_error(c) : c \in required \ DOMAIN pm}
                     /\ UNCHANGED <<in_degree, available, remaining, semesters, year, is_spring,
                                    report>>
                ELSE LET deg == [c \in required |-> Cardinality(pm[c])]
                     IN /\ in_degree' = deg
                        /\ available' = initial_available(required, deg)
                        /\ remaining' = required
                        /\ semesters' = <<>>
                        /\ year' = config.start_year
                        /\ is_spring' = (config.start_term = "spring")
                        /\ pc' = "loop"
                        /\ UNCHANGED <<error, error_info, report>>
    /\ UNCHANGED <<courses, config, all_required, processed, new_courses, iteration,
                   clock_log, sim_pc, sim_req, sim_out1, sim_out2,
                   simplify_count, legacy_vars, fn_vars>>

\* offered_set that passes over every spring term
offered_set_fall_only(avail, spring, yr) ==
    {course \in avail :
        has_course(course) /\ pattern_allows(get_course(course).pattern, spring, yr) /\ ~spring}

\* offered_set without the call of pattern_allows
offered_set_any_term(avail, spring, yr) == {course \in avail : has_course(course)}

\* offered_set that offers nothing in an even year
offered_set_odd_years(avail, spring, yr) ==
    {course \in avail :
        /\ has_course(course)
        /\ pattern_allows(get_course(course).pattern, spring, yr)
        /\ yr % 2 = 1}

\* the courses offered_now of lines 736-740, as a set
offered_set(avail, spring, yr) ==
    {course \in avail :
        has_course(course) /\ pattern_allows(get_course(course).pattern, spring, yr)}

\* every order in which iterating a set can list its members
Orderings(S) ==
    {f \in [1..Cardinality(S) -> S] : \A i, j \in 1..Cardinality(S) : i # j => f[i] # f[j]}

\* dependents_of for a reverse_map that records nothing
dependents_of_none(course) == {}

\* reverse_map.get(course, [])
dependents_of(course) ==
    IF course \in DOMAIN reverse_map THEN reverse_map[course] ELSE {}

\* lines 752-755 for one placed course: st = [available, remaining, in_degree]
RECURSIVE update_dependents(_, _)
update_dependents(deps, st) ==
    IF deps = {} THEN st
    ELSE LET dependent == CHOOSE d \in deps : TRUE
             deg == st.in_degree[dependent] - 1
             st1 == [st EXCEPT !.in_degree[dependent] = deg,
                               !.available = IF deg = 0 THEN @ \cup {dependent} ELSE @]
         IN update_dependents(deps \ {dependent}, st1)

\* lines 747-755: the loop over offered_now
RECURSIVE place_courses(_, _)
place_courses(offered_now, st) ==
    IF offered_now = <<>> THEN st
    ELSE LET course == Head(offered_now)
             st1 == [st EXCEPT !.available = @ \ {course}, !.remaining = @ \ {course}]
         IN place_courses(Tail(offered_now), update_dependents(dependents_of(course), st1))

\* position of a term on the clock: spring Y, fall Y, spring Y+1, ...
term_index(spring, yr) == 2 * yr + (IF spring THEN 0 ELSE 1)

terms_elapsed ==
    term_index(is_spring, year) - term_index(config.start_term = "spring", config.start_year)

\* the safety check that never fires
nothing_available_never(avail, remain) == FALSE

\* the safety check of line 763
nothing_available(avail, remain) == avail = {} /\ remain # {}

\* RuntimeError of lines 764-767: the message holds len(remaining) and no course code
runtime_error(remain) == [codes |-> {}, count |-> Cardinality(remain)]

\* a clock whose year increases at every step
advance_term_every_step(spring, yr) == <<~spring, yr + 1>>

\* lines 769-777: the term after (spring, yr), as (is_spring, year)
advance_term(spring, yr) == IF spring THEN <<FALSE, yr>> ELSE <<TRUE, yr + 1>>

\* one iteration of the while loop of lines 734-777
ScheduleTerm ==
    /\ pc = "loop"
    /\ remaining # {}
    /\ terms_elapsed < MaxTerms
    /\ \E offered_now \in Orderings(offered_set(available, is_spring, year)) :
          LET st == place_courses(offered_now,
                        [available |-> available, remaining |-> remaining,
                         in_degree |-> in_degree])
          IN /\ semesters' = IF offered_now # <<>> THEN Append(semesters, offered_now)
                                                   ELSE semesters
             /\ clock_log' = IF offered_now # <<>> THEN Append(clock_log, <<is_spring, year>>)
                                                   ELSE clock_log
             /\ available' = st.available
             /\ remaining' = st.remaining
             /\ in_degree' = st.in_degree
             /\ IF nothing_available(st.available, st.remaining)
                   THEN /\ pc' = "failed"
                        /\ error' = "RuntimeError"
                        /\ error_info' = runtime_error(st.remaining)
                        /\ UNCHANGED <<year, is_spring, report>>
                   ELSE /\ is_spring' = advance_term(is_spring, year)[1]
                        /\ year' = advance_term(is_spring, year)[2]
                        /\ UNCHANGED <<pc, error, error_info, report>>
    /\ UNCHANGED <<courses, config, all_required, processed, new_courses, iteration,
                   prereq_map, reverse_map, sim_pc, sim_req, sim_out1, sim_out2,
                   simplify_count, legacy_vars, fn_vars>>

\* lines 846-847 of main: the term the report computes for the i-th returned semester,
\* as (is_spring, start_year)
report_term(i) ==
    <<IF i = 1 THEN config.start_term = "spring" ELSE i % 2 = 0,
      config.start_year + ((i - 1) \div 2)>>

\* lines 844-855 of main: the errors the report logs for the returned list, one for each
\* known course whose pattern does not allow the term computed for its semester
report_errors(returned) ==
    {e \in [course : DOMAIN courses, semester : DOMAIN returned] :
        /\ \E k \in DOMAIN returned[e.semester] : returned[e.semester][k] = e.course
        /\ ~pattern_allows(get_course(e.course).pattern, report_term(e.semester)[1],
                           report_term(e.semester)[2])}

\* line 779: the loop ended, semesters is returned; lines 842-855: main reports it
ReturnSchedule ==
    /\ pc = "loop"
    /\ remaining = {}
    /\ pc' = "done"
    /\ report' = report_errors(semesters)
    /\ UNCHANGED <<courses, config, all_required, processed, new_courses, iteration,
                   prereq_map, reverse_map, in_degree, available, remaining, semesters,
                   year, is_spring, error, error_info, clock_log, sim_pc, sim_req, sim_out1,
                   sim_out2, simplify_count, legacy_vars, fn_vars>>

-----------------------------------------------------------------------------
(* The credit-capped pipeline of src/create_schedule.py: build_dependency_graph, *)
(* topological_sort and generate_semesters, as main runs them in phases 3 and 4  *)

\* max_iterations of generate_semesters
max_iterations == 20

\* str.upper on the course codes of the model
upper(code) == IF code = "a" THEN "A" ELSE code

\* position of a code in the order of Python's string comparison
code_rank(code) ==
    CASE code = "A" -> 1 [] code = "B" -> 2 [] code = "C" -> 3
      [] code = "D" -> 4 [] code = "E" -> 5 [] code = "a" -> 6

\* sorted(S)
RECURSIVE sorted(_)
sorted(S) ==
    IF S = {} THEN <<>>
    ELSE LET first == CHOOSE x \in S : \A y \in S : code_rank(x) <= code_rank(y)
         IN <<first>> \o sorted(S \ {first})

\* the members of a list
members(list) == {list[i] : i \in DOMAIN list}

\* an order in which iterating the set S can list its members: ascending or
\* descending; for the sets of at most two codes of the model these are all orders
RECURSIVE reversed(_)
reversed(list) == IF list = <<>> THEN <<>> ELSE Append(reversed(Tail(list)), Head(list))

set_order(S, rev) == IF rev THEN reversed(sorted(S)) ELSE sorted(S)

\* find_prerequisites: what the database answers for the code as it was given
find_prerequisites(prerequisites, course_code) ==
    IF course_code \in DOMAIN prerequisites THEN prerequisites[course_code] ELSE {}

\* CourseGraph.requires after build_dependency_graph: a node per required code,
\* upper-cased, and the prerequisites the database names that are required too
build_dependency_graph(required_courses, prerequisites) ==
    LET required_upper == {upper(c) : c \in members(required_courses)}
    IN [node \in required_upper |->
           {upper(prereq_code) :
               prereq_code \in UNION {find_prerequisites(prerequisites, c) :
                                        c \in {x \in members(required_courses) : upper(x) = node}}}
           \cap required_upper]

\* find_concurrent_requirements: what the database answers for the code as given
find_concurrent_requirements(concurrents, course_code) ==
    IF course_code \in DOMAIN concurrents THEN concurrents[course_code] ELSE {}

\* CourseGraph.concurrent after build_dependency_graph: per required code, the
\* concurrent requirements the database names that are required too
build_concurrent_graph(required_courses, concurrents) ==
    LET required_upper == {upper(c) : c \in members(required_courses)}
    IN [node \in required_upper |->
           {upper(concurrent_code) :
               concurrent_code \in UNION {find_concurrent_requirements(concurrents, c) :
                                        c \in {x \in members(required_courses) : upper(x) = node}}}
           \cap required_upper]

\* CourseGraph.get_concurrent_requirements, which no function calls
get_concurrent_requirements(g, course_code) ==
    IF course_code \in DOMAIN g THEN g[course_code] ELSE {}

\* CourseGraph.get_prerequisites
get_prerequisites(g, course_code) == IF course_code \in DOMAIN g THEN g[course_code] ELSE {}

RECURSIVE dfs(_, _, _, _)
RECURSIVE dfs_prereqs(_, _, _, _)

\* dfs with two colours: a node seen before counts as a cycle, finished or not
dfs_two_colour(course, st, g, rev) ==
    IF st.visited[course] # 0 THEN [st EXCEPT !.has_cycle = TRUE]
    ELSE LET st1 == [st EXCEPT !.visited[course] = 1]
             st2 == dfs_prereqs(set_order(get_prerequisites(g, course), rev), st1, g, rev)
         IN [st2 EXCEPT !.visited[course] = 2, !.sorted_courses = Append(@, course)]

\* dfs that appends the course before it visits the prerequisites
dfs_append_first(course, st, g, rev) ==
    IF st.visited[course] = 1 THEN [st EXCEPT !.has_cycle = TRUE]
    ELSE IF st.visited[course] = 2 THEN st
    ELSE LET st1 == [st EXCEPT !.visited[course] = 1, !.sorted_courses = Append(@, course)]
             st2 == dfs_prereqs(set_order(get_prerequisites(g, course), rev), st1, g, rev)
         IN [st2 EXCEPT !.visited[course] = 2]

\* dfs of topological_sort on st = [visited, sorted_courses, has_cycle]; it is only
\* called for keys of visited
dfs(course, st, g, rev) ==
    IF st.visited[course] = 1 THEN [st EXCEPT !.has_cycle = TRUE]
    ELSE IF st.visited[course] = 2 THEN st
    ELSE LET st1 == [st EXCEPT !.visited[course] = 1]
             st2 == dfs_prereqs(set_order(get_prerequisites(g, course), rev), st1, g, rev)
         IN [st2 EXCEPT !.visited[course] = 2, !.sorted_courses = Append(@, course)]

\* the loop over graph.get_prerequisites(course) inside dfs
dfs_prereqs(prereqs, st, g, rev) ==
    IF prereqs = <<>> THEN st
    ELSE LET prereq == Head(prereqs)
             st1 == IF prereq \in DOMAIN st.visited THEN dfs(prereq, st, g, rev) ELSE st
         IN dfs_prereqs(Tail(prereqs), st1, g, rev)

\* the loop over sorted(required_courses) of topological_sort
RECURSIVE dfs_all(_, _, _, _)
dfs_all(list, st, g, rev) ==
    IF list = <<>> THEN st
    ELSE LET course_upper == upper(Head(list))
             st1 == IF st.visited[course_upper] = 0 THEN dfs(course_upper, st, g, rev) ELSE st
         IN dfs_all(Tail(list), st1, g, rev)

topological_sort(g, required_courses, rev) ==
    LET visited == [c \in {upper(x) : x \in members(required_courses)} |-> 0]
        st == dfs_all(sorted(members(required_courses)),
                      [visited |-> visited, sorted_courses |-> <<>>, has_cycle |-> FALSE],
                      g, rev)
    IN IF st.has_cycle THEN [sorted_courses |-> <<>>, has_cycle |-> TRUE]
       ELSE [sorted_courses |-> st.sorted_courses, has_cycle |-> FALSE]

\* a check_prerequisites_satisfied that finds every course ready
check_prerequisites_always(course_code, g, completed_courses) ==
    {[satisfied |-> TRUE, message |-> <<>>]}

\* the pairs check_prerequisites_satisfied can return: (True, None), or (False,
\* f"Requires {prereq}") for the missing prerequisite that the iteration of the
\* set reaches first, which can be any of the missing ones
check_prerequisites_result(course_code, g, completed_courses) ==
    LET missing == {prereq \in get_prerequisites(g, course_code) :
                       prereq \notin completed_courses}
    IN IF missing = {} THEN {[satisfied |-> TRUE, message |-> <<>>]}
       ELSE {[satisfied |-> FALSE, message |-> <<"Requires", prereq>>] : prereq \in missing}

\* check_prerequisites_satisfied that lets no course with a prerequisite pass
check_prerequisites_never(course_code, g, completed_courses) ==
    get_prerequisites(g, course_code) = {}

\* check_prerequisites_satisfied: its first return value
check_prerequisites_satisfied(course_code, g, completed_courses) ==
    \A r \in check_prerequisites_result(course_code, g, completed_courses) : r.satisfied

\* int(text) for the strings of the model; the others raise
int_of == ("3" :> 3) @@ ("4" :> 4)

\* course_credits as generate_semesters reads it from a course node
course_credits_of(course_node) ==
    IF "min_credits" \notin DOMAIN course_node THEN 0
    ELSE IF course_node.min_credits.kind = "str"
            THEN IF course_node.min_credits.text \in DOMAIN int_of
                    THEN int_of[course_node.min_credits.text]
                    ELSE 3
            ELSE course_node.min_credits.val

\* the credit test that ignores what the semester already holds
fits_alone(semester_credits, course_credits, credits_per_semester) ==
    course_credits <= credits_per_semester

\* the credit test of generate_semesters
fits(semester_credits, course_credits, credits_per_semester) ==
    semester_credits + course_credits <= credits_per_semester

\* the for loop of generate_semesters over sorted(courses_to_schedule), on
\* acc = [courses_to_schedule, semester_courses, semester_credits]
RECURSIVE fill_semester(_, _, _, _)
fill_semester(list, acc, args, completed_courses) ==
    IF list = <<>> THEN acc
    ELSE LET course_code == Head(list)
             rest == Tail(list)
         IN IF course_code \notin DOMAIN args.course_by_code
               THEN fill_semester(rest, [acc EXCEPT !.courses_to_schedule = @ \ {course_code}],
                                  args, completed_courses)
            ELSE IF ~check_prerequisites_satisfied(course_code, graph, completed_courses)
               THEN fill_semester(rest, acc, args, completed_courses)
            ELSE LET course_credits == course_credits_of(args.course_by_code[course_code])
                 IN IF fits(acc.semester_credits, course_credits, args.credits_per_semester)
                       THEN fill_semester(rest,
                                [courses_to_schedule |-> acc.courses_to_schedule \ {course_code},
                                 semester_courses |-> Append(acc.semester_courses, course_code),
                                 semester_credits |-> acc.semester_credits + course_credits],
                                args, completed_courses)
                       ELSE fill_semester(rest, acc, args, completed_courses)

\* the name f"{'Spring' if is_spring else 'Fall'} {current_year}" as its two words
semester_name(spring, current_year) == <<IF spring THEN "Spring" ELSE "Fall", current_year>>

\* the locals of generate_semesters before its while loop; main passes neither
\* start_year nor start_spring, so the defaults 2025 and True apply
generate_semesters_entry(required_courses) ==
    [courses_to_schedule |-> {upper(c) : c \in members(required_courses)},
     completed_courses |-> {},
     accumulated_credits |-> 0,
     semesters |-> <<>>,
     current_year |-> 2025,
     is_spring |-> TRUE,
     iteration |-> 0]

\* lines 693-698 of generate_semesters: the semester after (spring, current_year)
next_semester(spring, current_year) ==
    IF spring THEN <<FALSE, current_year>> ELSE <<TRUE, current_year + 1>>

\* phase 3.2 of main: topological_sort, exit(1) on a cycle, otherwise on to phase 4
TopologicalSort ==
    /\ legacy_pc = "sort"
    /\ \E rev \in BOOLEAN :
          /\ topo' = topological_sort(graph, legacy_args.required_courses, rev)
          /\ legacy_pc' = IF topo'.has_cycle THEN "exit" ELSE "generate"
    /\ gen' = IF topo'.has_cycle THEN gen
                                  ELSE generate_semesters_entry(legacy_args.required_courses)
    /\ UNCHANGED <<courses, config, pc, all_required, processed, new_courses, iteration,
                   prereq_map, reverse_map, in_degree, available, remaining, semesters,
                   year, is_spring, error, error_info, report, clock_log, sim_pc, sim_req, sim_out1, sim_out2,
                   simplify_count, legacy_args, graph, fn_vars>>

\* one iteration of the while loop of generate_semesters
GenerateSemester ==
    /\ legacy_pc = "generate"
    /\ gen.courses_to_schedule # {}
    /\ gen.iteration < max_iterations
    /\ LET acc == fill_semester(sorted(gen.courses_to_schedule),
                                [courses_to_schedule |-> gen.courses_to_schedule,
                                 semester_courses |-> <<>>, semester_credits |-> 0],
                                legacy_args, gen.completed_courses)
       IN IF acc.semester_courses # <<>>
             THEN /\ gen' = [courses_to_schedule |-> acc.courses_to_schedule,
                             completed_courses |->
                                 gen.completed_courses \cup members(acc.semester_courses),
                             accumulated_credits |->
                                 gen.accumulated_credits + acc.semester_credits,
                             semesters |->
                                 Append(gen.semesters,
                                        <<semester_name(gen.is_spring, gen.current_year),
                                          acc.semester_courses>>),
                             current_year |-> next_semester(gen.is_spring, gen.current_year)[2],
                             is_spring |-> next_semester(gen.is_spring, gen.current_year)[1],
                             iteration |-> gen.iteration + 1]
                  /\ legacy_pc' = legacy_pc
             ELSE /\ gen' = [gen EXCEPT !.courses_to_schedule = acc.courses_to_schedule,
                                        !.iteration = @ + 1]
                  /\ legacy_pc' = "done"
    /\ UNCHANGED <<courses, config, pc, all_required, processed, new_courses, iteration,
                   prereq_map, reverse_map, in_degree, available, remaining, semesters,
                   year, is_spring, error, error_info, report, clock_log, sim_pc, sim_req, sim_out1, sim_out2,
                   simplify_count, legacy_args, graph, topo, fn_vars>>

\* the while loop ended on its condition: generate_semesters returns state.semesters
GenerateReturn ==
    /\ legacy_pc = "generate"
    /\ (gen.courses_to_schedule = {} \/ gen.iteration >= max_iterations)
    /\ legacy_pc' = "done"
    /\ UNCHANGED <<courses, config, pc, all_required, processed, new_courses, iteration,
                   prereq_map, reverse_map, in_degree, available, remaining, semesters,
                   year, is_spring, error, error_info, report, clock_log, sim_pc, sim_req, sim_out1, sim_out2,
                   simplify_count, legacy_args, graph, topo, gen, fn_vars>>

-----------------------------------------------------------------------------
(* Inputs of the scheduler runs *)

\* codes of the catalog; "X" is referenced by requirements and never in the catalog
Codes == {"A", "B", "C"}

ParsedCourse(req, pat) == [requisite |-> <<req>>, pattern |-> pat, min_credits |-> 3]

RequisitesA ==
    {Empty, Course("B"), Course("A"), ChooseN(1, <<Course("B"), Course("X")>>)}

RequisitesB ==
    {Empty, Course("A"), Or(<<Course("A"), Course("C")>>),
     And(<<CourseT("A", "CONCURRENT"), Course("X")>>)}

RequisitesC ==
    {Empty, Course("A"), Course("B"), CreditsFrom(3, <<Course("A"), Course("B")>>)}

PatternsA == {"fall", "fall_and_spring", "spring_odd"}

PatternsB == {"spring", "fall_even", "fall_and_spring"}

PatternsC == {"fall_and_spring", "deactivated"}

Catalogs ==
    {("A" :> ParsedCourse(ra, pa)) @@ ("B" :> ParsedCourse(rb, pb)) @@ ("C" :> ParsedCourse(rc, pcc)) :
        ra \in RequisitesA, pa \in PatternsA, rb \in RequisitesB, pb \in PatternsB,
        rc \in RequisitesC, pcc \in PatternsC}

Programs ==
    {<<Course("C")>>,
     <<And(<<Course("A"), Course("B")>>), Or(<<Course("C"), Course("X")>>)>>,
     <<Course("A"), Course("B"), Course("C")>>,
     <<Course("B"), Course("X")>>}

Configs ==
    {[program |-> [requisite |-> p], completed_course_work |-> done,
      placements |-> <<Placement("Math", "1")>>, gpa |-> 3, level |-> Level("freshman"),
      start_year |-> y, start_term |-> t] :
        p \in Programs, done \in {{}, {"A"}, {"B"}}, y \in {2025, 2026},
        t \in {"fall", "spring"}}

\* the function harness is not running
FnIdle ==
    /\ fn_pc = "idle"
    /\ fn_in = <<>>
    /\ fn_out = <<>>

\* the credit-capped pipeline is not running
LegacyIdle ==
    /\ legacy_pc = "idle"
    /\ legacy_args = <<>>
    /\ graph = <<>>
    /\ topo = [sorted_courses |-> <<>>, has_cycle |-> FALSE]
    /\ gen = generate_semesters_entry(<<>>)

\* the state of main at line 789, before the first expander iteration
Init ==
    /\ courses \in Catalogs
    /\ config \in Configs
    /\ pc = "expand"
    /\ all_required = initial_courses
    /\ processed = {}
    /\ new_courses = initial_courses
    /\ iteration = 1
    /\ prereq_map = <<>>
    /\ reverse_map = <<>>
    /\ in_degree = <<>>
    /\ available = {}
    /\ remaining = {}
    /\ semesters = <<>>
    /\ year = config.start_year
    /\ is_spring = (config.start_term = "spring")
    /\ error = ""
    /\ error_info = no_info
    /\ report = {}
    /\ clock_log = <<>>
    /\ sim_pc = "idle"
    /\ sim_req = Empty
    /\ sim_out1 = Empty
    /\ sim_out2 = Empty
    /\ simplify_count = [c \in DOMAIN courses |-> 0]
    /\ LegacyIdle
    /\ FnIdle

Next == ExpandIteration \/ BuildGraph \/ ScheduleTerm \/ ReturnSchedule

Spec == Init /\ [][Next]_vars

\* main is a sequential program: it takes its next step whenever it has one.
\* The last conjunct is weak fairness of ExpandIteration with the condition of
\* its while loop written out.
FairSpec ==
    /\ Spec
    /\ WF_vars(BuildGraph) /\ WF_vars(ScheduleTerm) /\ WF_vars(ReturnSchedule)
    /\ ([]<>(~(pc = "expand" /\ new_courses # {} /\ iteration <= MaxIterations))
          \/ []<><<ExpandIteration>>_vars)

-----------------------------------------------------------------------------
(* The simplifier on its own: simplify_requirement applied once and twice *)

Leaves ==
    {Empty, Course("A"), Course("B"), Course("X"), GPA(4), Placement("Math", "1"),
     Level("junior"), Permission("instructor"), Other("audition")}

\* the lists of at most n members of S
ListsUpTo(S, n) == UNION {[1..k -> S] : k \in 0..n}

CompositesOver(S) ==
    {And(rs) : rs \in ListsUpTo(S, MaxChildren)}
    \cup {Or(rs) : rs \in ListsUpTo(S, MaxChildren)}
    \cup {CreditsFrom(c, rs) : c \in {3, 6}, rs \in ListsUpTo(S, MaxChildren)}
    \cup {ChooseN(n, rs) : n \in {1, 2}, rs \in ListsUpTo(S, MaxChildren)}

\* the nodes nested one level down in the deeper trees
Inner ==
    {Course("A"), Course("B"), Permission("instructor"), Other("audition"),
     And(<<Course("A"), Course("B")>>), Or(<<Course("A"), Course("B")>>), Or(<<>>),
     And(<<Course("A"), Permission("instructor")>>),
     CreditsFrom(6, <<Course("A"), Course("B")>>),
     ChooseN(2, <<Course("A"), Course("B")>>)}

Trees ==
    Leaves \cup CompositesOver(Leaves)
    \cup {And(rs) : rs \in ListsUpTo(Inner, MaxChildren) \ {<<>>}}
    \cup {Or(rs) : rs \in ListsUpTo(Inner, MaxChildren) \ {<<>>}}
    \cup {CreditsFrom(c, rs) : c \in {3, 6}, rs \in ListsUpTo(Inner, MaxChildren) \ {<<>>}}
    \cup {ChooseN(n, rs) : n \in {1, 2}, rs \in ListsUpTo(Inner, MaxChildren) \ {<<>>}}

SimCatalog ==
    ("A" :> ParsedCourse(Empty, "fall"))
    @@ ("B" :> [ParsedCourse(Course("A"), "spring") EXCEPT !.min_credits = 4])

SimConfigs ==
    {[program |-> [requisite |-> <<>>], completed_course_work |-> done,
      placements |-> pl, gpa |-> 3, level |-> Level(lv),
      start_year |-> 2025, start_term |-> "fall"] :
        done \in SUBSET {"A", "B", "X"},
        pl \in {<<>>, <<Placement("Physics", "3"), Placement("Math", "2")>>},
        lv \in {"freshman", "senior"}}

SimInit ==
    /\ courses = SimCatalog
    /\ config \in SimConfigs
    /\ sim_req \in Trees
    /\ sim_pc = "in"
    /\ sim_out1 = Empty
    /\ sim_out2 = Empty
    /\ pc = "idle"
    /\ all_required = {}
    /\ processed = {}
    /\ new_courses = {}
    /\ iteration = 1
    /\ prereq_map = <<>>
    /\ reverse_map = <<>>
    /\ in_degree = <<>>
    /\ available = {}
    /\ remaining = {}
    /\ semesters = <<>>
    /\ year = config.start_year
    /\ is_spring = FALSE
    /\ error = ""
    /\ error_info = no_info
    /\ report = {}
    /\ clock_log = <<>>
    /\ simplify_count = [c \in DOMAIN courses |-> 0]
    /\ LegacyIdle
    /\ FnIdle

\* a simplify_requirement that writes its result over the node it was given
arguments_simplified_in_place(req, cfg) == <<simplify(req), cfg>>

\* the arguments of simplify_requirement as the call leaves them: lines 557-684
\* assign to no field of req and call no method that changes a list
arguments_after_call(req, cfg) == <<req, cfg>>

SimplifyOnce ==
    /\ sim_pc = "in"
    /\ sim_out1' = simplify(sim_req)
    /\ sim_req' = arguments_after_call(sim_req, config)[1]
    /\ config' = arguments_after_call(sim_req, config)[2]
    /\ sim_pc' = "once"
    /\ UNCHANGED <<courses, pc, all_required, processed, new_courses, iteration,
                   prereq_map, reverse_map, in_degree, available, remaining, semesters,
                   year, is_spring, error, error_info, report, clock_log, sim_out2,
                   simplify_count, legacy_vars, fn_vars>>

\* the result of the first call is simplified
SimplifyTwice ==
    /\ sim_pc = "once"
    /\ sim_out2' = simplify(sim_out1)
    /\ sim_out1' = arguments_after_call(sim_out1, config)[1]
    /\ config' = arguments_after_call(sim_out1, config)[2]
    /\ sim_pc' = "twice"
    /\ UNCHANGED <<courses, pc, all_required, processed, new_courses, iteration,
                   prereq_map, reverse_map, in_degree, available, remaining, semesters,
                   year, is_spring, error, error_info, report, clock_log, sim_req,
                   simplify_count, legacy_vars, fn_vars>>

\* the first call is made again, with the same arguments
SimplifyAgain ==
    /\ sim_pc = "once"
    /\ sim_out2' = simplify(sim_req)
    /\ sim_req' = arguments_after_call(sim_req, config)[1]
    /\ config' = arguments_after_call(sim_req, config)[2]
    /\ sim_pc' = "again"
    /\ UNCHANGED <<courses, pc, all_required, processed, new_courses, iteration,
                   prereq_map, reverse_map, in_degree, available, remaining, semesters,
                   year, is_spring, error, error_info, report, clock_log, sim_out1,
                   simplify_count, legacy_vars, fn_vars>>

SimNext == SimplifyOnce \/ SimplifyTwice \/ SimplifyAgain

SimSpec == SimInit /\ [][SimNext]_vars

-----------------------------------------------------------------------------
(* Inputs of the runs of the credit-capped pipeline *)

\* the required lists of the runs; "a" is a lower-case spelling of "A"
RequiredLists ==
    {<<"A", "B", "C", "D">>, <<"C", "A", "B">>, <<"a", "B">>, <<"D", "a", "A">>}

\* the database's answers to find_prerequisites, per code; "E" is never required
PrerequisiteAnswers ==
    {("A" :> pa) @@ ("B" :> pb) @@ ("C" :> pcc) @@ ("D" :> pd) :
        pa \in {{}, {"B"}, {"A"}}, pb \in {{}, {"A"}, {"C"}},
        pcc \in {{}, {"A"}, {"A", "B"}}, pd \in {{}, {"B", "C"}, {"E"}}}

\* the database's answers to find_concurrent_requirements, per code
ConcurrentAnswers ==
    {[c \in {} |-> {}], ("A" :> {"D"}) @@ ("B" :> {"A"})}

\* a course node of course_by_code with a number for min_credits
NodeInt(n, pat) == [min_credits |-> [kind |-> "int", val |-> n], pattern |-> pat]

\* a course node of course_by_code with a string for min_credits
NodeStr(t, pat) == [min_credits |-> [kind |-> "str", text |-> t], pattern |-> pat]

\* course_by_code as build_course_index keys it (upper case); D may be missing
CourseIndexes ==
    LET NodesA == {NodeInt(3, "fall"), NodeInt(3, "fall_and_spring"),
                   NodeInt(4, "fall"), NodeInt(4, "fall_and_spring")}
        NodesB == {NodeInt(3, "fall_and_spring"), NodeStr("4", "fall_and_spring")}
        NodesC == {NodeInt(3, "fall_and_spring"), NodeStr("TBD", "fall_and_spring"),
                   [pattern |-> "fall_and_spring"]}
        ABC == {("A" :> na) @@ ("B" :> nb) @@ ("C" :> nc) :
                   na \in NodesA, nb \in NodesB, nc \in NodesC}
    IN ABC \cup {index @@ ("D" :> NodeInt(3, "fall_and_spring")) : index \in ABC}

\* the values of credits_per_semester of the runs
CreditCaps == {3, 7}

\* the state of main before phase 3.2, the graph built by build_dependency_graph
LegacyInit ==
    /\ legacy_args \in
          {[required_courses |-> r, prerequisites |-> p, concurrents |-> cc,
            course_by_code |-> i, credits_per_semester |-> cap] :
              r \in RequiredLists, p \in PrerequisiteAnswers, cc \in ConcurrentAnswers,
              i \in CourseIndexes, cap \in CreditCaps}
    /\ graph = build_dependency_graph(legacy_args.required_courses, legacy_args.prerequisites)
    /\ legacy_pc = "sort"
    /\ topo = [sorted_courses |-> <<>>, has_cycle |-> FALSE]
    /\ gen = generate_semesters_entry(<<>>)
    /\ courses = SimCatalog
    /\ config \in {c \in SimConfigs : c.completed_course_work = {} /\ c.placements = <<>>
                                      /\ c.level = Level("freshman")}
    /\ pc = "idle"
    /\ all_required = {}
    /\ processed = {}
    /\ new_courses = {}
    /\ iteration = 1
    /\ prereq_map = <<>>
    /\ reverse_map = <<>>
    /\ in_degree = <<>>
    /\ available = {}
    /\ remaining = {}
    /\ semesters = <<>>
    /\ year = config.start_year
    /\ is_spring = FALSE
    /\ error = ""
    /\ error_info = no_info
    /\ report = {}
    /\ clock_log = <<>>
    /\ sim_pc = "idle"
    /\ sim_req = Empty
    /\ sim_out1 = Empty
    /\ sim_out2 = Empty
    /\ simplify_count = [c \in DOMAIN courses |-> 0]
    /\ FnIdle

LegacyNext == TopologicalSort \/ GenerateSemester \/ GenerateReturn

LegacySpec == LegacyInit /\ [][LegacyNext]_vars

\* the runs of both schedulers: main of src/scheduler/create_schedule.py and
\* main of src/create_schedule.py
SchedulersInit == Init \/ LegacyInit

SchedulersNext == Next \/ LegacyNext

SchedulersSpec == SchedulersInit /\ [][SchedulersNext]_vars

\* neither main is running
MainIdle ==
    /\ courses = SimCatalog
    /\ config \in {c \in SimConfigs : c.completed_course_work = {} /\ c.placements = <<>>
                                      /\ c.level = Level("freshman")}
    /\ pc = "idle"
    /\ all_required = {}
    /\ processed = {}
    /\ new_courses = {}
    /\ iteration = 1
    /\ prereq_map = <<>>
    /\ reverse_map = <<>>
    /\ in_degree = <<>>
    /\ available = {}
    /\ remaining = {}
    /\ semesters = <<>>
    /\ year = config.start_year
    /\ is_spring = FALSE
    /\ error = ""
    /\ error_info = no_info
    /\ report = {}
    /\ clock_log = <<>>
    /\ sim_pc = "idle"
    /\ sim_req = Empty
    /\ sim_out1 = Empty
    /\ sim_out2 = Empty
    /\ simplify_count = [c \in DOMAIN courses |-> 0]
    /\ LegacyIdle

-----------------------------------------------------------------------------
(* The requirement parsers: parse_requirements of src/scheduler/create_schedule.py *)
(* and parse_requirement of src/create_schedule.py, on untyped nodes            *)

\* the members of RequirementType
RequirementType ==
    {"NONE", "PERMISSION", "LEVEL", "PLACEMENT", "GPA", "COURSE", "OR", "AND",
     "CREDITS_FROM", "CHOOSE_N", "OTHER"}

\* the fields that the model of a leaf declares and a raw item gives well:
\* pydantic raises ValidationError when a Literal field has another value
leaf_validates(item) ==
    CASE item.type = "LEVEL" -> item.level \in DOMAIN level_order
      [] item.type = "COURSE" ->
            item.timing \in {"COMPLETED", "CONCURRENT", "CONCURRENT_OR_COMPLETED"}
      [] OTHER -> TRUE

\* the result of a parser call: what ended it, and the nodes it returned
parse_result(outcome, parsed) == [outcome |-> outcome, parsed |-> parsed]

\* parse_requirements: the match statement of lines 298-345 for each item in
\* order; a failure of an item ends the whole call
RECURSIVE parse_requirements(_)
parse_requirements(requirement_list) ==
    IF requirement_list = <<>> THEN parse_result("returned", <<>>)
    ELSE LET item == Head(requirement_list)
             children ==
                 IF "requirements" \in DOMAIN item
                    THEN parse_requirements(item.requirements)
                    ELSE parse_result("KeyError", <<>>)
             first ==
                 CASE item.type = "NONE" -> parse_result("returned", <<Empty>>)
                   [] item.type \in {"PERMISSION", "LEVEL", "PLACEMENT", "GPA", "COURSE",
                                     "OTHER"} ->
                         IF leaf_validates(item) THEN parse_result("returned", <<item>>)
                         ELSE parse_result("ValidationError", <<>>)
                   [] item.type \in Composite ->
                         IF children.outcome # "returned" THEN children
                         ELSE parse_result("returned",
                                  <<CASE item.type = "OR" -> Or(children.parsed)
                                      [] item.type = "AND" -> And(children.parsed)
                                      [] item.type = "CREDITS_FROM" ->
                                            CreditsFrom(item.credits_required, children.parsed)
                                      [] item.type = "CHOOSE_N" ->
                                            ChooseN(item.choose, children.parsed)>>)
                   [] OTHER -> parse_result("exit", <<>>)
         IN IF first.outcome # "returned" THEN first
            ELSE LET rest == parse_requirements(Tail(requirement_list))
                 IN IF rest.outcome # "returned" THEN rest
                    ELSE parse_result("returned", first.parsed \o rest.parsed)

\* RequirementNode(req_type, **kwargs) for each kind
RequirementNode(req_type) == [type |-> req_type]

CourseNode(code, timing) == [type |-> "COURSE", code |-> code, timing |-> timing]

LevelNode(level) == [type |-> "LEVEL", level |-> level]

PlacementNode(subject, level) == [type |-> "PLACEMENT", subject |-> subject, level |-> level]

PermissionNode(authority) == [type |-> "PERMISSION", authority |-> authority]

GPANode(gpa) == [type |-> "GPA", gpa |-> gpa]

OtherNode(description) == [type |-> "OTHER", description |-> description]

AndNode(requirements) == [type |-> "AND", requirements |-> requirements]

OrNode(requirements) == [type |-> "OR", requirements |-> requirements]

CreditsFromNode(credits_required, requirements) ==
    [type |-> "CREDITS_FROM", credits_required |-> credits_required,
     requirements |-> requirements]

ChooseNNode(choose_n, requirements) ==
    [type |-> "CHOOSE_N", choose_n |-> choose_n, requirements |-> requirements]

\* parse_requirement: the node of one requisite object, NONE for an unknown type
RECURSIVE parse_requirement(_)
parse_requirement(requisite) ==
    LET requirements ==
            IF "requirements" \in DOMAIN requisite
               THEN [i \in DOMAIN requisite.requirements |->
                        parse_requirement(requisite.requirements[i])]
               ELSE <<>>
    IN CASE requisite.type = "NONE" -> RequirementNode("NONE")
         [] requisite.type = "COURSE" -> CourseNode(upper(requisite.course), requisite.timing)
         [] requisite.type = "LEVEL" -> LevelNode(lower(requisite.level))
         [] requisite.type = "PLACEMENT" -> PlacementNode(requisite.subject, requisite.level)
         [] requisite.type = "PERMISSION" -> PermissionNode(requisite.authority)
         [] requisite.type = "GPA" -> GPANode(requisite.gpa)
         [] requisite.type = "OTHER" -> OtherNode(requisite.other)
         [] requisite.type = "AND" -> AndNode(requirements)
         [] requisite.type = "OR" -> OrNode(requirements)
         [] requisite.type = "CREDITS_FROM" ->
               CreditsFromNode(requisite.credits_required, requirements)
         [] requisite.type = "CHOOSE_N" -> ChooseNNode(requisite.choose, requirements)
         [] OTHER -> RequirementNode("NONE")

\* untyped leaves: one of each kind, a LEVEL in another spelling, and a node of
\* a type that is no member of RequirementType
RawLeaves ==
    {Empty, Course("a"), Course("B"), GPA(3), Placement("Math", "1"), Level("junior"),
     Level("Junior"), Permission("instructor"), Other("audition"), [type |-> "UNKNOWN"]}

\* untyped composites over S, and an AND without the key requirements
RawCompositesOver(S) ==
    CompositesOver(S) \cup {[type |-> "AND"]}

RawInner ==
    {Course("a"), [type |-> "UNKNOWN"], And(<<>>), Or(<<>>), ChooseN(1, <<>>),
     CreditsFrom(3, <<>>), And(<<Course("a"), Course("B")>>)}

RawTrees ==
    RawLeaves \cup RawCompositesOver(RawLeaves) \cup CompositesOver(RawInner)

ParseInit ==
    /\ fn_pc = "in"
    /\ fn_in \in RawTrees
    /\ fn_out = <<>>
    /\ MainIdle

\* the call parse_requirements([item]) of line 925
ParseRequirements ==
    /\ fn_pc = "in"
    /\ fn_out' = [parser |-> "parse_requirements", result |-> parse_requirements(<<fn_in>>)]
    /\ fn_pc' = "out"
    /\ UNCHANGED <<main_vars, sim_vars, legacy_vars, fn_in>>

\* the call parse_requirement(requisite)
ParseRequirement ==
    /\ fn_pc = "in"
    /\ fn_out' = [parser |-> "parse_requirement",
                  result |-> parse_result("returned", <<parse_requirement(fn_in)>>)]
    /\ fn_pc' = "out"
    /\ UNCHANGED <<main_vars, sim_vars, legacy_vars, fn_in>>

ParseNext == ParseRequirements \/ ParseRequirement

ParseSpec == ParseInit /\ [][ParseNext]_vars

-----------------------------------------------------------------------------
(* resolve_requirements of src/create_schedule.py *)

\* the most children of a node given to resolve_requirements
MaxOptions == 3

\* the empty dict of constraints; a missing key "level" is the empty list of
\* levels, a missing key "placements" the empty list of placements
no_constraints == [level |-> <<>>, placements |-> <<>>]

\* the result (courses, constraints) of resolve_requirements
resolved(courses_list, constraints) == [courses |-> courses_list, constraints |-> constraints]

\* the merge loop of lines 362-366: a key that is new is taken over, a list is
\* extended, a level that is already set stays
merge_constraints(constraints, sub_constraints) ==
    [level |-> IF constraints.level = <<>> THEN sub_constraints.level ELSE constraints.level,
     placements |-> constraints.placements \o sub_constraints.placements]

\* lines 395-401: the credits of the courses of one option of CREDITS_FROM
RECURSIVE option_credits(_, _)
option_credits(sub_courses, course_by_code) ==
    IF sub_courses = <<>> THEN 0
    ELSE LET course_code == Head(sub_courses)
             node == course_by_code[upper(course_code)]
             course_credits ==
                 IF upper(course_code) \notin DOMAIN course_by_code THEN 0
                 ELSE IF "min_credits" \notin DOMAIN node THEN 0
                 ELSE IF node.min_credits.kind = "int" THEN node.min_credits.val
                 ELSE 0
         IN course_credits + option_credits(Tail(sub_courses), course_by_code)

RECURSIVE resolve_requirements(_, _)

RECURSIVE resolve_each(_, _)

RECURSIVE resolve_credits_from(_, _, _, _)

\* an OR that takes the first option that resolves to a course
first_resolvable_option(requirements, course_by_code) ==
    LET found == {i \in DOMAIN requirements :
                     resolve_requirements(requirements[i], course_by_code).courses # <<>>}
    IN IF found = {} THEN requirements[1]
       ELSE requirements[CHOOSE i \in found : \A k \in found : i <= k]

\* line 374: the option an OR takes
first_option(requirements, course_by_code) == requirements[1]

\* a CHOOSE_N that takes every option
options_taken_all(choose_n, requirements) == Len(requirements)

\* line 430: min(choose_n, len(requirements)), the number of options a CHOOSE_N takes
options_taken(choose_n, requirements) ==
    IF choose_n < Len(requirements) THEN choose_n ELSE Len(requirements)

\* the loops of lines 357-366 and 430-443 over the requirements in order
resolve_each(requirements, course_by_code) ==
    IF requirements = <<>> THEN resolved(<<>>, no_constraints)
    ELSE LET sub == resolve_requirements(Head(requirements), course_by_code)
             rest == resolve_each(Tail(requirements), course_by_code)
         IN resolved(sub.courses \o rest.courses,
                     merge_constraints(sub.constraints, rest.constraints))

\* the loop of lines 386-410 from total_credits and what is selected so far
resolve_credits_from(requirements, course_by_code, credits_required, total_credits) ==
    IF requirements = <<>> \/ total_credits >= credits_required
       THEN resolved(<<>>, no_constraints)
    ELSE LET sub == resolve_requirements(Head(requirements), course_by_code)
             rest == resolve_credits_from(Tail(requirements), course_by_code, credits_required,
                         total_credits + option_credits(sub.courses, course_by_code))
         IN resolved(sub.courses \o rest.courses,
                     merge_constraints(sub.constraints, rest.constraints))

\* resolve_requirements on a tree: no node is its own descendant, so the test of
\* visited_reqs (lines 305-309) never holds
resolve_requirements(req_node, course_by_code) ==
    CASE req_node.type = "NONE" -> resolved(<<>>, no_constraints)
      [] req_node.type = "COURSE" ->
            IF req_node.code \in DOMAIN course_by_code
                  \/ upper(req_node.code) \in DOMAIN course_by_code
               THEN resolved(<<req_node.code>>, no_constraints)
               ELSE resolved(<<>>, no_constraints)
      [] req_node.type = "LEVEL" ->
            resolved(<<>>, [no_constraints EXCEPT !.level = <<req_node.level>>])
      [] req_node.type = "PLACEMENT" ->
            resolved(<<>>, [no_constraints EXCEPT !.placements =
                               <<[subject |-> req_node.subject, level |-> req_node.level]>>])
      [] req_node.type \in {"PERMISSION", "GPA", "OTHER"} -> resolved(<<>>, no_constraints)
      [] req_node.type = "AND" -> resolve_each(req_node.requirements, course_by_code)
      [] req_node.type = "OR" ->
            IF req_node.requirements # <<>>
               THEN resolve_requirements(first_option(req_node.requirements, course_by_code),
                                         course_by_code)
               ELSE resolved(<<>>, no_constraints)
      [] req_node.type = "CREDITS_FROM" ->
            resolve_credits_from(req_node.requirements, course_by_code,
                                 req_node.credits_required, 0)
      [] req_node.type = "CHOOSE_N" ->
            resolve_each(SubSeq(req_node.requirements, 1,
                                options_taken(req_node.choose_n, req_node.requirements)),
                         course_by_code)
      [] OTHER -> resolved(<<>>, no_constraints)

\* the leaves of the trees given to resolve_requirements; X is in no index
OptionLeaves ==
    {CourseNode("A", "COMPLETED"), CourseNode("B", "COMPLETED"), CourseNode("C", "COMPLETED"),
     CourseNode("X", "COMPLETED"), LevelNode("junior"), PlacementNode("Math", "1")}

OtherLeaves ==
    {RequirementNode("NONE"), CourseNode("a", "COMPLETED"), LevelNode("senior"),
     PermissionNode("instructor"), GPANode(3), OtherNode("audition")}

NodesOver(S, n) ==
    {AndNode(rs) : rs \in ListsUpTo(S, n)}
    \cup {OrNode(rs) : rs \in ListsUpTo(S, n)}
    \cup {CreditsFromNode(c, rs) : c \in {3, 6}, rs \in ListsUpTo(S, n)}
    \cup {ChooseNNode(k, rs) : k \in 0..2, rs \in ListsUpTo(S, n)}

\* nodes nested one level down
InnerNodes ==
    {CourseNode("A", "COMPLETED"), CourseNode("X", "COMPLETED"), LevelNode("senior"),
     OrNode(<<CourseNode("X", "COMPLETED"), CourseNode("B", "COMPLETED")>>),
     OrNode(<<LevelNode("junior"), CourseNode("C", "COMPLETED")>>),
     AndNode(<<CourseNode("B", "COMPLETED"), PlacementNode("Math", "1")>>),
     ChooseNNode(1, <<CourseNode("C", "COMPLETED"), CourseNode("A", "COMPLETED")>>)}

NodeTrees ==
    OptionLeaves \cup OtherLeaves \cup NodesOver(OptionLeaves, MaxOptions)
    \cup NodesOver(OtherLeaves, 1) \cup NodesOver(InnerNodes, MaxChildren)

\* course_by_code: A, B and C with their credits, and an index that lacks C
ResolveIndexes ==
    LET ABC == ("A" :> NodeInt(3, "fall")) @@ ("B" :> NodeInt(4, "fall_and_spring"))
               @@ ("C" :> NodeStr("3", "fall_and_spring"))
    IN {ABC, [c \in {"A", "B"} |-> ABC[c]]}

ResolveInit ==
    /\ fn_pc = "in"
    /\ fn_in \in [req_node : NodeTrees, course_by_code : ResolveIndexes]
    /\ fn_out = <<>>
    /\ MainIdle

\* the call resolve_requirements(req_node, course_by_code)
ResolveRequirements ==
    /\ fn_pc = "in"
    /\ fn_out' = resolve_requirements(fn_in.req_node, fn_in.course_by_code)
    /\ fn_pc' = "out"
    /\ UNCHANGED <<main_vars, sim_vars, legacy_vars, fn_in>>

ResolveNext == ResolveRequirements

ResolveSpec == ResolveInit /\ [][ResolveNext]_vars

-----------------------------------------------------------------------------
(* pattern_allows on its own *)

\* the patterns given to pattern_allows: the members of OfferingPattern, a missing
\* pattern, other spellings and a string that is no member
PatternInputs == OfferingPattern \cup {"", "FALL", "Spring_Odd", "DEACTIVATED", "winter"}

\* the years given to pattern_allows
Years == 2024..2027

PatternInit ==
    /\ fn_pc = "in"
    /\ fn_in \in [pattern : PatternInputs, is_spring : BOOLEAN, year : Years]
    /\ fn_out = <<>>
    /\ MainIdle

\* the call pattern_allows(pattern, is_spring, year)
PatternAllows ==
    /\ fn_pc = "in"
    /\ fn_out' = <<pattern_allows(fn_in.pattern, fn_in.is_spring, fn_in.year)>>
    /\ fn_pc' = "out"
    /\ UNCHANGED <<main_vars, sim_vars, legacy_vars, fn_in>>

PatternNext == PatternAllows

PatternSpec == PatternInit /\ [][PatternNext]_vars

-----------------------------------------------------------------------------
(* The simplifier on PLACEMENT nodes *)

\* the most placements a student state holds
MaxPlacements == 2

\* placement subjects and levels; "DV" and "" are levels that are no number
PlacementNodes ==
    {Placement(subj, l) : subj \in {"Math", "Physics"}, l \in {"0", "1", "2", "3", "DV", ""}}

PlacementInit ==
    /\ courses = SimCatalog
    /\ config \in {[program |-> [requisite |-> <<>>], completed_course_work |-> {},
                     placements |-> pl, gpa |-> 3, level |-> Level("freshman"),
                     start_year |-> 2025, start_term |-> "fall"] :
                        pl \in ListsUpTo(PlacementNodes, MaxPlacements)}
    /\ sim_req \in PlacementNodes
    /\ sim_pc = "in"
    /\ sim_out1 = Empty
    /\ sim_out2 = Empty
    /\ pc = "idle"
    /\ all_required = {}
    /\ processed = {}
    /\ new_courses = {}
    /\ iteration = 1
    /\ prereq_map = <<>>
    /\ reverse_map = <<>>
    /\ in_degree = <<>>
    /\ available = {}
    /\ remaining = {}
    /\ semesters = <<>>
    /\ year = config.start_year
    /\ is_spring = FALSE
    /\ error = ""
    /\ error_info = no_info
    /\ report = {}
    /\ clock_log = <<>>
    /\ simplify_count = [c \in DOMAIN courses |-> 0]
    /\ LegacyIdle
    /\ FnIdle

PlacementSpec == PlacementInit /\ [][SimNext]_vars

-----------------------------------------------------------------------------
(* Properties of schedule_courses *)

\* the courses of semester i
semester_courses(i) == {semesters[i][k] : k \in DOMAIN semesters[i]}

\* the semesters that hold course c
semesters_of(c) == {i \in DOMAIN semesters : c \in semester_courses(i)}

\* the REQUIRES edges of course x, read from its raw prerequisite tree
requires_edges(x) ==
    IF has_course(x)
       THEN {y \in collect_all_course_codes(get_course(x).requisite) : y \in required_set}
       ELSE {}

\* C1: every scheduled course X with a REQUIRES edge to Y (both required, neither
\* completed) has Y placed in a term strictly earlier than its own; X and Y never
\* share a term.
C1_PrerequisiteStrictlyEarlier ==
    \A i \in DOMAIN semesters : \A x \in semester_courses(i) : \A y \in requires_edges(x) :
        /\ y \notin semester_courses(i)
        /\ \E j \in semesters_of(y) :
              /\ j < i
              /\ term_index(clock_log[j][1], clock_log[j][2])
                    < term_index(clock_log[i][1], clock_log[i][2])

\* a returned schedule in which a course follows its prerequisite
C1_Witness ==
    /\ pc = "done"
    /\ \E i \in DOMAIN semesters : \E x \in semester_courses(i) :
          \E y \in requires_edges(x) : \E j \in semesters_of(y) : j < i

\* C2: no course is placed in a term (is_spring, year) its offering pattern does not
\* allow, the term being the value of the clock when the course was placed.
C2_PlacedOnlyWhenPatternAllows ==
    \A i \in DOMAIN semesters : \A c \in semester_courses(i) :
        pattern_allows(get_course(c).pattern, clock_log[i][1], clock_log[i][2])

\* a course offered in odd springs only was placed after the scheduler waited for one
C2_Witness ==
    \E i \in DOMAIN semesters : \E c \in semester_courses(i) :
        /\ get_course(c).pattern = "spring_odd"
        /\ term_index(clock_log[i][1], clock_log[i][2])
              > term_index(config.start_term = "spring", config.start_year) + 1

\* the courses the scheduler may still place are all deactivated
only_deactivated_available ==
    /\ available # {}
    /\ \A c \in available : has_course(c) /\ get_course(c).pattern = "deactivated"

\* C3: a run whose required set holds a deactivated course fails with
\* DeactivatedCourseRequired naming it; it neither returns a schedule nor runs on:
\* the scheduler never goes on to a further term while the only courses it may
\* place are deactivated.
C3_DeactivatedCourseFails ==
    ~(pc = "loop" /\ terms_elapsed > 0 /\ remaining # {} /\ only_deactivated_available)

\* the courses reachable from the set S along at most n REQUIRES edges
RECURSIVE requires_reach(_, _)
requires_reach(S, n) ==
    IF n = 0 THEN S
    ELSE requires_reach(S \cup UNION {requires_edges(x) : x \in S}, n - 1)

\* the REQUIRES graph over the required courses has a cycle
requires_cycle ==
    \E c \in required_set :
        c \in requires_reach(requires_edges(c), Cardinality(required_set))

\* C4: when the REQUIRES graph over the required courses has a cycle, the run
\* aborts with CycleDetected before the scheduler places any course in any term.
C4_CycleAbortsBeforeScheduling ==
    (pc \in {"loop", "done", "failed"} /\ requires_cycle) => semesters = <<>>

\* C9: the dependency graph holds no edge from a course to itself: c is never in
\* prereq_map[c].
C9_NoSelfEdge == \A c \in DOMAIN prereq_map : c \notin prereq_map[c]

\* C10: a course code absent from the catalog never aborts planning, wherever it
\* is referenced: the run does not end in an exception raised for that code.
C10_MissingCourseNeverAborts ==
    ~(pc = "failed" /\ error = "KeyError" /\ \E c \in all_required : ~has_course(c))

-----------------------------------------------------------------------------
(* The term clock of both schedulers *)

\* the term after (spring, yr) in the order spring Y, fall Y, spring Y+1
following_term(spring, yr) == <<~spring, IF spring THEN yr ELSE yr + 1>>

\* a step of generate_semesters that produced a semester
semester_produced == Len(gen'.semesters) > Len(gen.semesters)

\* a step of either scheduler moves its clock to the following term when it ends
\* a term, and leaves it alone otherwise
clock_step ==
    /\ (pc = "loop" /\ pc' = "loop") =>
           <<is_spring', year'>> = following_term(is_spring, year)
    /\ ~(pc = "loop" /\ pc' = "loop") => UNCHANGED <<is_spring, year>>
    /\ semester_produced =>
           <<gen'.is_spring, gen'.current_year>>
               = following_term(gen.is_spring, gen.current_year)
    /\ ~semester_produced =>
           (gen'.is_spring = gen.is_spring /\ gen'.current_year = gen.current_year)

\* the semesters of generate_semesters are named Spring or Fall, each the term
\* after the one before it
semester_names_follow ==
    \A i \in DOMAIN gen.semesters :
        /\ gen.semesters[i][1][1] \in {"Spring", "Fall"}
        /\ i > 1 =>
              LET before == gen.semesters[i - 1][1]
                  after == following_term(before[1] = "Spring", before[2])
              IN gen.semesters[i][1] = semester_name(after[1], after[2])

\* C24: the clock of schedule_courses and the clock of generate_semesters move
\* from (spring, Y) to (fall, Y) and from (fall, Y) to (spring, Y+1) at every
\* step of the clock and change at no other step; the semesters that
\* generate_semesters names are named Spring or Fall, each the term after the
\* one before it, so no summer term is produced
C24_TermClockAlternates ==
    /\ [][clock_step]_vars
    /\ [](semester_names_follow /\ is_spring \in BOOLEAN /\ gen.is_spring \in BOOLEAN)

\* schedule_courses went from a spring through the fall of the same year to the
\* spring of the next year
C24_Witness ==
    /\ pc \in {"loop", "done"}
    /\ config.start_term = "spring"
    /\ is_spring
    /\ year = config.start_year + 1
    /\ Len(semesters) >= 2

\* generate_semesters named Spring 2025, Fall 2025 and Spring 2026
C24_WitnessGenerate ==
    /\ Len(gen.semesters) >= 3
    /\ gen.semesters[3][1] = <<"Spring", 2026>>

-----------------------------------------------------------------------------
(* Properties of pattern_allows *)

\* the table of section 4.5: may a course of this pattern be placed in the term
reference_table(pattern, spring, yr) ==
    LET even == yr % 2 = 0
    IN CASE pattern \in {"summer", "summer_even", "summer_odd", "deactivated"} -> FALSE
         [] pattern \in {"fall_and_spring", "irregular", "arranged", "unknown", ""} -> TRUE
         [] pattern = "fall" -> ~spring
         [] pattern = "spring" -> spring
         [] pattern = "fall_even" -> ~spring /\ even
         [] pattern = "fall_odd" -> ~spring /\ ~even
         [] pattern = "spring_even" -> spring /\ even
         [] pattern = "spring_odd" -> spring /\ ~even

\* C25: for every member of OfferingPattern and for a missing pattern, every term
\* and every year, pattern_allows returns the entry of the reference table
C25_PatternAllowsIsReferenceTable ==
    (fn_pc = "out" /\ fn_in.pattern \in OfferingPattern \cup {""}) =>
        fn_out[1] = reference_table(fn_in.pattern, fn_in.is_spring, fn_in.year)

\* pattern_allows refused spring_odd in the spring of an even year
C25_Witness ==
    /\ fn_pc = "out"
    /\ fn_in = [pattern |-> "spring_odd", is_spring |-> TRUE, year |-> 2026]
    /\ fn_out = <<FALSE>>

-----------------------------------------------------------------------------
\* the term at position t of the clock, as (is_spring, year)
term_at(t) == <<t % 2 = 0, t \div 2>>

\* position on the clock of the term in which semester i was filled
semester_term(i) == term_index(clock_log[i][1], clock_log[i][2])

\* the first term a course placed in semester i could have taken: the start term,
\* or the term after the last of its REQUIRES prerequisites
first_open_term(c) ==
    LET start == term_index(config.start_term = "spring", config.start_year)
        after == {semester_term(j) + 1 :
                     j \in UNION {semesters_of(y) : y \in requires_edges(c)}}
    IN CHOOSE t \in after \cup {start} : \A u \in after \cup {start} : u <= t

\* the run of the scenario: A (no prerequisites, fall), B (requires A, spring),
\* nothing else to schedule, starting fall 2025
scenario_A_fall_B_spring ==
    /\ required_set = {"A", "B"}
    /\ get_course("A").pattern = "fall"
    /\ get_course("B").pattern = "spring"
    /\ requires_edges("A") = {}
    /\ requires_edges("B") = {"A"}
    /\ config.start_term = "fall"
    /\ config.start_year = 2025

\* C13: every placed course sits in the earliest term, counted from
\* (start_term, start_year), that is strictly later than the terms of all its
\* REQUIRES prerequisites and that its offering pattern allows, whatever else the
\* term holds; the scenario run returns A in fall 2025 and B in spring 2026.
C13_EarliestAllowedTerm ==
    /\ \A i \in DOMAIN semesters : \A c \in semester_courses(i) :
          /\ semesters_of(c) = {i}
          /\ first_open_term(c) <= semester_term(i)
          /\ pattern_allows(get_course(c).pattern, clock_log[i][1], clock_log[i][2])
          /\ \A t \in first_open_term(c)..(semester_term(i) - 1) :
                ~pattern_allows(get_course(c).pattern, term_at(t)[1], term_at(t)[2])
    /\ (pc = "done" /\ scenario_A_fall_B_spring) =>
          /\ semesters = <<(<<"A">>), (<<"B">>)>>
          /\ clock_log = <<(<<FALSE, 2025>>), (<<TRUE, 2026>>)>>

\* the scenario run has returned its schedule
C13_Witness ==
    /\ pc = "done"
    /\ scenario_A_fall_B_spring
    /\ Len(semesters) = 2

\* a returned schedule with a term that holds all three courses, nine credits
C13_WitnessFullTerm ==
    /\ pc = "done"
    /\ \E i \in DOMAIN semesters : Len(semesters[i]) = 3

\* the pattern allows some fall or spring term
pattern_ever_allows(pattern) ==
    \E spring \in BOOLEAN : \E yr \in {config.start_year, config.start_year + 1} :
        pattern_allows(pattern, spring, yr)

\* the inputs of schedule_courses that C14 is about
schedulable_input ==
    /\ \A c \in required_set : has_course(c) /\ pattern_ever_allows(get_course(c).pattern)
    /\ ~requires_cycle

\* every course still to take sits in exactly one semester and the semesters hold
\* nothing else, no course twice
semesters_partition_required ==
    /\ \A c \in required_set : Cardinality(semesters_of(c)) = 1
    /\ \A i \in DOMAIN semesters :
          /\ semester_courses(i) \subseteq required_set
          /\ Cardinality(semester_courses(i)) = Len(semesters[i])

\* C14: when all required courses are in the catalog, the REQUIRES graph over them
\* is acyclic and each pattern allows some fall or spring term, schedule_courses,
\* once entered, eventually returns with remaining empty, without raising, and the
\* returned semesters partition the required set minus the completed courses.
C14_SchedulerTerminatesWithPartition ==
    (pc = "loop" /\ schedulable_input)
        ~> (pc = "done" /\ remaining = {} /\ error = "" /\ semesters_partition_required)

\* a returned schedule of three courses over several terms, the last one placed
\* after the scheduler waited at least four terms
C14_Witness ==
    /\ pc = "done"
    /\ schedulable_input
    /\ Cardinality(required_set) = 3
    /\ Len(semesters) >= 2
    /\ terms_elapsed >= 5

\* the prerequisite trees of two catalog courses name each other
mutually_referential ==
    \E a, b \in DOMAIN courses :
        /\ a # b
        /\ b \in collect_all_course_codes(get_course(a).requisite)
        /\ a \in collect_all_course_codes(get_course(b).requisite)

\* C20: the expansion loop terminates for every catalog, catalogs whose courses
\* name each other as prerequisites included (the run leaves the loop: new_courses
\* becomes empty and the scheduler is entered), and it never simplifies the
\* prerequisite tree of a course a second time.
C20_ExpansionTerminatesOncePerCourse ==
    /\ [](\A c \in DOMAIN simplify_count : simplify_count[c] <= 1)
    /\ <>(pc # "expand" /\ new_courses = {})

\* the loop was left after three passes over a catalog whose courses name each
\* other, each of the three courses simplified once
C20_Witness ==
    /\ pc # "expand"
    /\ mutually_referential
    /\ iteration = 4
    /\ \A c \in DOMAIN simplify_count : simplify_count[c] = 1

\* C21: the expander raises a fatal error when the number of fixed-point
\* iterations exceeds a safety bound: no run is past SafetyBound passes of the
\* loop without having failed on that account.
C21_ExpanderFailsBeyondBound ==
    (iteration - 1 > SafetyBound) =>
        (pc = "failed" /\ error \notin {"KeyError", "RuntimeError"})

\* a cycle among the required courses, every one of them in the catalog and
\* offered in some term
cycle_among_schedulable ==
    /\ requires_cycle
    /\ \A c \in required_set : has_course(c) /\ pattern_ever_allows(get_course(c).pattern)

\* C22: whenever at the end of a term available is empty while remaining is not,
\* the run fails with RuntimeError and the clock does not advance; a run that
\* enters the loop with a cycle among its courses ends in that error, never in a
\* returned schedule and never running on.
C22_DeadlockFailsFatally ==
    /\ [][(pc = "loop" /\ nothing_available(available', remaining')) =>
            (pc' = "failed" /\ error' = "RuntimeError"
             /\ year' = year /\ is_spring' = is_spring)]_vars
    /\ (pc = "loop" /\ (nothing_available(available, remaining) \/ cycle_among_schedulable))
          ~> (pc = "failed" /\ error = "RuntimeError")

\* a run with a cycle that failed after it had placed a course outside the cycle
C22_Witness ==
    /\ pc = "failed"
    /\ error = "RuntimeError"
    /\ cycle_among_schedulable
    /\ semesters # <<>>
    /\ Cardinality(remaining) = 2

\* C23: every fatal error carries the codes of the offending courses: the
\* exception of a failed run names at least one course, and the one raised for a
\* scheduling deadlock names the courses that could not be scheduled.
C23_FatalErrorNamesCourses ==
    pc = "failed" =>
        /\ error_info.codes # {}
        /\ error = "RuntimeError" => error_info.codes = remaining

(* Properties of topological_sort *)

\* the required codes, upper-cased
required_upper == {upper(c) : c \in members(legacy_args.required_courses)}

\* the courses reachable from the set S along at most n edges of graph
RECURSIVE graph_reach(_, _)
graph_reach(S, n) ==
    IF n = 0 THEN S
    ELSE graph_reach(S \cup UNION {get_prerequisites(graph, x) \cap required_upper : x \in S},
                     n - 1)

\* the REQUIRES graph restricted to the required courses has a cycle
graph_has_cycle ==
    \E c \in required_upper :
        c \in graph_reach(get_prerequisites(graph, c) \cap required_upper,
                          Cardinality(required_upper))

\* topological_sort has returned
sorted_returned == legacy_pc \in {"generate", "done", "exit"}

\* C18: for an acyclic REQUIRES graph, topological_sort returns has_cycle = False
\* and an order that holds every required course exactly once, every REQUIRES
\* prerequisite of a course before that course.
C18_TopologicalOrder ==
    (sorted_returned /\ ~graph_has_cycle) =>
        LET order == topo.sorted_courses
        IN /\ topo.has_cycle = FALSE
           /\ members(order) = required_upper
           /\ Len(order) = Cardinality(required_upper)
           /\ \A i \in DOMAIN order : \A prereq \in get_prerequisites(graph, order[i]) :
                 \E j \in 1..(i - 1) : order[j] = prereq

\* a chain A requires B requires C, sorted against the alphabet
C18_Witness ==
    /\ sorted_returned
    /\ ~graph_has_cycle
    /\ "B" \in get_prerequisites(graph, "A")
    /\ "C" \in get_prerequisites(graph, "B")
    /\ Len(topo.sorted_courses) >= 3
    /\ topo.sorted_courses[1] = "C"

\* C19: topological_sort returns ([], True) if and only if the REQUIRES graph
\* restricted to the required courses has a cycle, a self-loop included: never for
\* an acyclic graph with shared prerequisites, and never missing a cycle, in
\* whatever order the prerequisites are visited.
C19_CycleReportedIffCycle ==
    sorted_returned =>
        /\ topo.has_cycle <=> graph_has_cycle
        /\ topo.has_cycle => topo.sorted_courses = <<>>
        /\ (legacy_pc = "exit") <=> graph_has_cycle

\* a diamond (D requires B and C, both require A) sorted without a cycle report
C19_Witness ==
    /\ sorted_returned
    /\ get_prerequisites(graph, "D") = {"B", "C"}
    /\ get_prerequisites(graph, "B") = {"A"}
    /\ get_prerequisites(graph, "C") = {"A"}
    /\ get_prerequisites(graph, "A") = {}
    /\ topo.has_cycle = FALSE
    /\ Len(topo.sorted_courses) = 4

\* a self-loop reported as a cycle
C19_WitnessSelfLoop ==
    /\ legacy_pc = "exit"
    /\ "A" \in get_prerequisites(graph, "A")
    /\ topo = [sorted_courses |-> <<>>, has_cycle |-> TRUE]

(* Properties of generate_semesters *)

\* the courses of the i-th returned semester
gen_courses(i) == members(gen.semesters[i][2])

\* the semesters that hold the course c
gen_semesters_of(c) == {i \in DOMAIN gen.semesters : c \in gen_courses(i)}

\* min_credits of the course c as a number: the number itself, the number a
\* numeric string spells, 0 when the node has none, and the 3 the scheduler
\* assumes for a string that spells no number
min_credits_value(c) ==
    LET node == legacy_args.course_by_code[c]
    IN CASE "min_credits" \notin DOMAIN node -> 0
         [] node.min_credits = [kind |-> "int", val |-> 3] -> 3
         [] node.min_credits = [kind |-> "int", val |-> 4] -> 4
         [] node.min_credits = [kind |-> "str", text |-> "4"] -> 4
         [] node.min_credits = [kind |-> "str", text |-> "TBD"] -> 3

\* the sum of min_credits over the courses of the set S
sum_of_credits(S) ==
    Cardinality(UNION {{<<c, k>> : k \in 1..min_credits_value(c)} : c \in S})

\* generate_semesters has returned
generated == legacy_pc = "done"

\* no course sits in two semesters or twice in one
scheduled_once ==
    /\ \A i, j \in DOMAIN gen.semesters : i # j => gen_courses(i) \cap gen_courses(j) = {}
    /\ \A i \in DOMAIN gen.semesters :
          Cardinality(gen_courses(i)) = Len(gen.semesters[i][2])

\* C15 as stated: for a required list whose courses are all in course_by_code, an
\* acyclic graph and any credits_per_semester, the union of the returned
\* semesters is the upper-cased required set and no course is in two semesters.
C15_EveryRequiredCourseScheduled ==
    (generated /\ required_upper \subseteq DOMAIN legacy_args.course_by_code
               /\ ~graph_has_cycle) =>
        /\ UNION {gen_courses(i) : i \in DOMAIN gen.semesters} = required_upper
        /\ scheduled_once

\* C15 as amended: the same, for the inputs in which no course has more credits
\* than credits_per_semester and there are at most max_iterations required courses.
C15_EveryFittingCourseScheduled ==
    (generated /\ required_upper \subseteq DOMAIN legacy_args.course_by_code
               /\ ~graph_has_cycle
               /\ \A c \in required_upper :
                      min_credits_value(c) <= legacy_args.credits_per_semester
               /\ Cardinality(required_upper) <= max_iterations) =>
        /\ UNION {gen_courses(i) : i \in DOMAIN gen.semesters} = required_upper
        /\ scheduled_once

\* four courses, D after B and C, those after A, one course a semester under a
\* cap of 3 credits: all four scheduled over four semesters
C15_Witness ==
    /\ generated
    /\ legacy_args.credits_per_semester = 3
    /\ Cardinality(required_upper) = 4
    /\ required_upper \subseteq DOMAIN legacy_args.course_by_code
    /\ get_prerequisites(graph, "D") = {"B", "C"}
    /\ \A c \in required_upper : min_credits_value(c) <= legacy_args.credits_per_semester
    /\ Len(gen.semesters) = 4
    /\ gen.courses_to_schedule = {}

\* C16: in every returned semester the sum of min_credits of its courses is at
\* most credits_per_semester.
C16_SemesterWithinCreditCap ==
    \A i \in DOMAIN gen.semesters :
        sum_of_credits(gen_courses(i)) <= legacy_args.credits_per_semester

\* a semester filled to the cap of 7 while a course with no prerequisite left to
\* take, four credits as a string, had to wait for the next one
C16_Witness ==
    /\ generated
    /\ legacy_args.credits_per_semester = 7
    /\ \E i \in DOMAIN gen.semesters :
          /\ sum_of_credits(gen_courses(i)) = 7
          /\ i + 1 \in DOMAIN gen.semesters
          /\ "B" \in gen_courses(i + 1)
          /\ get_prerequisites(graph, "B") = {}
          /\ legacy_args.course_by_code["B"].min_credits.kind = "str"

\* C17: every course placed in a semester named '<Fall|Spring> <year>' has an
\* offering pattern that allows that term and year.
C17_PatternAllowsNamedSemester ==
    \A i \in DOMAIN gen.semesters : \A c \in gen_courses(i) :
        pattern_allows(legacy_args.course_by_code[c].pattern,
                       gen.semesters[i][1][1] = "Spring", gen.semesters[i][1][2])

(* Properties of simplify_requirement *)

\* all nodes of the tree req, req included
RECURSIVE nodes_of(_)
nodes_of(req) ==
    {req} \cup
    (IF req.type \in Composite
        THEN UNION {nodes_of(req.requirements[i]) : i \in DOMAIN req.requirements}
        ELSE {})

\* no CREDITS_FROM or CHOOSE_N node of the tree reaches a completed course
no_completed_in_menus(req) ==
    \A n \in nodes_of(req) :
        n.type \in {"CREDITS_FROM", "CHOOSE_N"} =>
            extract_course_codes(n) \cap config.completed_course_work = {}

\* C5 as stated: simplify(simplify(node, S), S) = simplify(node, S) for every node
\* and student state.
C5_Idempotent == sim_pc = "twice" => sim_out2 = sim_out1

\* C5 as amended: simplify_requirement is idempotent on every tree in which no
\* CREDITS_FROM or CHOOSE_N node reaches a completed course.
C5_IdempotentWithoutCompletedMenus ==
    (sim_pc = "twice" /\ no_completed_in_menus(sim_req)) => sim_out2 = sim_out1

\* an AND whose simplification dropped a child and kept an untouched CREDITS_FROM menu
C5_Witness ==
    /\ sim_pc = "twice"
    /\ no_completed_in_menus(sim_req)
    /\ sim_req.type = "AND"
    /\ sim_out1.type = "AND"
    /\ sim_out1 # sim_req
    /\ \E i \in DOMAIN sim_out1.requirements : sim_out1.requirements[i].type = "CREDITS_FROM"

\* C6 as stated: simplify(COURSE{c}, S) is NONE iff c is in S.
C6_CourseNoneIffCompleted ==
    (sim_pc # "in" /\ sim_req.type = "COURSE") =>
        (sim_out1 = Empty <=> sim_req.course \in config.completed_course_work)

\* C6 as amended: simplify(COURSE{c}, S) is NONE iff c is in S or the catalog has
\* no course c.
C6_CourseNoneIffCompletedOrUnknown ==
    (sim_pc # "in" /\ sim_req.type = "COURSE") =>
        /\ sim_out1 = Empty <=>
              (sim_req.course \in config.completed_course_work \/ ~has_course(sim_req.course))
        /\ sim_out1 # Empty => sim_out1 = sim_req

\* a course leaf the catalog lacks, not completed, simplified to NONE
C6_Witness ==
    /\ sim_pc = "once"
    /\ sim_req.type = "COURSE"
    /\ ~has_course(sim_req.course)
    /\ sim_req.course \notin config.completed_course_work
    /\ sim_out1 = Empty

\* the children of req, each simplified on its own
simplified_children_of(req) ==
    [i \in DOMAIN req.requirements |-> simplify(req.requirements[i])]

not_satisfied(node) == node # Empty

\* C7: simplify(OR{children}, S) is NONE iff at least one child simplifies to NONE;
\* when none does, the result is an OR of the simplified form of every child, in
\* the original order.
C7_OrNoneIffSomeChildNone ==
    (sim_pc # "in" /\ sim_req.type = "OR") =>
        LET kids == simplified_children_of(sim_req)
        IN /\ sim_out1 = Empty <=> \E i \in DOMAIN kids : kids[i] = Empty
           /\ (\A i \in DOMAIN kids : kids[i] # Empty) => sim_out1 = Or(kids)

\* C8: simplify(AND{children}, S) is NONE iff every child simplifies to NONE;
\* otherwise the result is an AND of exactly the children that did not, each in its
\* simplified form, in their original relative order.
C8_AndNoneIffEveryChildNone ==
    (sim_pc # "in" /\ sim_req.type = "AND") =>
        LET kids == simplified_children_of(sim_req)
        IN /\ sim_out1 = Empty <=> \A i \in DOMAIN kids : kids[i] = Empty
           /\ (\E i \in DOMAIN kids : kids[i] # Empty) =>
                 sim_out1 = And(SelectSeq(kids, not_satisfied))

\* an AND of two children of which the first was dropped and the second kept
C8_Witness ==
    /\ sim_pc = "once"
    /\ sim_req.type = "AND"
    /\ Len(sim_req.requirements) = 2
    /\ simplify(sim_req.requirements[1]) = Empty
    /\ sim_out1.type = "AND"
    /\ Len(sim_out1.requirements) = 1

\* the course codes of the COURSE nodes anywhere in the tree req
codes_in_subtree(req) == {n.course : n \in {m \in nodes_of(req) : m.type = "COURSE"}}

\* the sum of min_credits over the codes of S, each a catalog course
sum_min_credits(S) ==
    Cardinality(UNION {{<<c, k>> : k \in 1..get_course(c).min_credits} : c \in S})

\* C11: for a CREDITS_FROM{c, children} node, with sum the total of min_credits
\* over the distinct completed course codes anywhere in the subtree (a code the
\* catalog lacks has no min_credits to add), the result is NONE iff sum >= c, and
\* otherwise CREDITS_FROM with credits_required = c - sum and the input's own
\* children list.
C11_CreditsFromReducesThreshold ==
    (sim_pc # "in" /\ sim_req.type = "CREDITS_FROM") =>
        LET done == {c \in codes_in_subtree(sim_req) :
                        c \in config.completed_course_work /\ has_course(c)}
            sum == sum_min_credits(done)
        IN /\ sim_out1 = Empty <=> sum >= sim_req.credits_required
           /\ sum < sim_req.credits_required =>
                 sim_out1 = CreditsFrom(sim_req.credits_required - sum, sim_req.requirements)

\* a CREDITS_FROM whose completed course sits inside a nested composite: the
\* threshold went down and the children, the completed course included, stayed
C11_Witness ==
    /\ sim_pc = "once"
    /\ sim_req.type = "CREDITS_FROM"
    /\ \E i \in DOMAIN sim_req.requirements :
           /\ sim_req.requirements[i].type \in Composite
           /\ codes_in_subtree(sim_req.requirements[i]) \cap config.completed_course_work # {}
    /\ sim_out1.type = "CREDITS_FROM"
    /\ sim_out1.credits_required < sim_req.credits_required
    /\ sim_out1.requirements = sim_req.requirements

\* C12: for a CHOOSE_N{n, children} node, with count the number of distinct
\* completed course codes anywhere in the subtree, the result is NONE iff
\* count >= n, and otherwise CHOOSE_N{n - count} with the input's own children list.
C12_ChooseNReducesCount ==
    (sim_pc # "in" /\ sim_req.type = "CHOOSE_N") =>
        LET count == Cardinality(codes_in_subtree(sim_req) \cap config.completed_course_work)
        IN /\ sim_out1 = Empty <=> count >= sim_req.choose
           /\ count < sim_req.choose =>
                 sim_out1 = ChooseN(sim_req.choose - count, sim_req.requirements)

\* a CHOOSE_N of two whose only completed course is listed twice: counted once,
\* one more to choose, children as they were
C12_Witness ==
    /\ sim_pc = "once"
    /\ sim_req.type = "CHOOSE_N"
    /\ sim_req.choose = 2
    /\ Len(sim_req.requirements) = 2
    /\ sim_req.requirements[1] = sim_req.requirements[2]
    /\ sim_req.requirements[1].type = "COURSE"
    /\ sim_req.requirements[1].course \in config.completed_course_work
    /\ sim_out1 = ChooseN(1, sim_req.requirements)

-----------------------------------------------------------------------------
(* PERMISSION and OTHER in the simplifier *)

\* a PERMISSION node, or an AND with such a node among its children
RECURSIVE holds_permission(_)
holds_permission(req) ==
    \/ req.type = "PERMISSION"
    \/ /\ req.type = "AND"
       /\ \E i \in DOMAIN req.requirements : holds_permission(req.requirements[i])

\* what the claim says of one call simplify_requirement(req) = out
permission_kept_other_dropped(req, out) ==
    /\ req.type = "PERMISSION" => out = req
    /\ (req.type = "AND" /\ holds_permission(req)) => out # Empty
    /\ req.type = "OTHER" => out = Empty

\* C26: for every student state a PERMISSION node is returned unchanged, an AND
\* that holds a PERMISSION node directly or through nested ANDs is not simplified
\* to NONE, and an OTHER node is simplified to NONE
C26_PermissionKeptOtherDropped ==
    /\ sim_pc \in {"once", "twice"} => permission_kept_other_dropped(sim_req, sim_out1)
    /\ sim_pc = "twice" => permission_kept_other_dropped(sim_out1, sim_out2)

\* an AND whose other members are all satisfied keeps the PERMISSION of its
\* nested AND
C26_Witness ==
    /\ sim_pc = "once"
    /\ sim_req = And(<<And(<<Course("A"), Permission("instructor")>>), Other("audition")>>)
    /\ "A" \in config.completed_course_work
    /\ sim_out1 = And(<<And(<<Permission("instructor")>>)>>)

-----------------------------------------------------------------------------
(* PLACEMENT in the simplifier *)

\* the rank of a placement level as section 3 gives it: the number it
\* writes, 0 when it writes none
level_rank(level) ==
    IF level \in {"0", "1", "2", "3"}
       THEN CHOOSE n \in 0..3 : level = <<"0", "1", "2", "3">>[n + 1]
       ELSE 0

\* the student holds a placement in the subject of req of at least its rank
placement_met(req) ==
    \E i \in DOMAIN config.placements :
        /\ config.placements[i].subject = req.subject
        /\ level_rank(config.placements[i].level) >= level_rank(req.level)

\* C27: a PLACEMENT node is simplified to NONE exactly when the student holds a
\* placement in the same subject whose rank is at least the required rank, a
\* level that is no number ranking 0, and is returned unchanged otherwise; so a
\* required level that is no number is met by any placement in the subject, and
\* placements in other subjects do not count
C27_PlacementNoneIffRankReached ==
    (sim_pc \in {"once", "twice"} /\ sim_req.type = "PLACEMENT") =>
        /\ sim_out1 = Empty <=> placement_met(sim_req)
        /\ sim_out1 # Empty => sim_out1 = sim_req
        /\ (sim_req.level \notin {"0", "1", "2", "3"}
             /\ \E i \in DOMAIN config.placements :
                    config.placements[i].subject = sim_req.subject) => sim_out1 = Empty
        /\ (\A i \in DOMAIN config.placements :
                config.placements[i].subject # sim_req.subject) => sim_out1 = sim_req

\* a placement of a level that is no number meets the required level 0 of its
\* subject, next to a higher placement in another subject
C27_Witness ==
    /\ sim_pc = "once"
    /\ sim_req = Placement("Math", "0")
    /\ config.placements = <<Placement("Physics", "3"), Placement("Math", "DV")>>
    /\ sim_out1 = Empty

\* a higher placement in another subject does not meet the requirement
C27_WitnessOtherSubject ==
    /\ sim_pc = "once"
    /\ sim_req = Placement("Math", "2")
    /\ config.placements = <<Placement("Physics", "3"), Placement("Math", "1")>>
    /\ sim_out1 = sim_req

-----------------------------------------------------------------------------
(* Properties of the requirement parsers *)

\* the nodes of an untyped or parsed tree
RECURSIVE tree_nodes(_)
tree_nodes(node) ==
    {node} \cup (IF "requirements" \in DOMAIN node
                   THEN UNION {tree_nodes(node.requirements[i]) :
                                  i \in DOMAIN node.requirements}
                   ELSE {})

\* a composite node with an empty child list
childless(node) ==
    /\ node.type \in Composite
    /\ "requirements" \in DOMAIN node
    /\ node.requirements = <<>>

\* the input holds a node of no known type, or a composite with no children
structurally_invalid(raw) ==
    \E n \in tree_nodes(raw) : n.type \notin RequirementType \/ childless(n)

\* C28: both parsers reject an input that holds a node of a type outside the
\* eleven kinds or a composite with no children with a validation error, and
\* return no composite with an empty child list
C28_ParserRejectsInvalid ==
    fn_pc = "out" =>
        /\ structurally_invalid(fn_in) => fn_out.result.outcome = "ValidationError"
        /\ fn_out.result.outcome = "returned" =>
               \A i \in DOMAIN fn_out.result.parsed :
                   \A n \in tree_nodes(fn_out.result.parsed[i]) : ~childless(n)

\* parse_requirements returned an AND without children
C28_EmptyAndReturned ==
    /\ fn_pc = "out"
    /\ fn_in = And(<<>>)
    /\ fn_out = [parser |-> "parse_requirements",
                 result |-> parse_result("returned", <<And(<<>>)>>)]

\* parse_requirement returned NONE for a node of unknown type
C28_UnknownTypeReturnedAsNone ==
    /\ fn_pc = "out"
    /\ fn_in = [type |-> "UNKNOWN"]
    /\ fn_out = [parser |-> "parse_requirement",
                 result |-> parse_result("returned", <<RequirementNode("NONE")>>)]

-----------------------------------------------------------------------------
(* Properties of resolve_requirements *)

\* C29: on an OR with children resolve_requirements returns the courses and the
\* constraints resolved from the first child and nothing else, also when the
\* first child resolves to no course and a later child would resolve to one
C29_OrResolvesFirstChildOnly ==
    (fn_pc = "out" /\ fn_in.req_node.type = "OR" /\ fn_in.req_node.requirements # <<>>) =>
        fn_out = resolve_requirements(fn_in.req_node.requirements[1], fn_in.course_by_code)

\* the first child is a course missing from the index, the second is in it: no
\* course is returned
C29_Witness ==
    /\ fn_pc = "out"
    /\ fn_in.req_node = OrNode(<<CourseNode("X", "COMPLETED"), CourseNode("B", "COMPLETED")>>)
    /\ "B" \in DOMAIN fn_in.course_by_code
    /\ fn_out = resolved(<<>>, no_constraints)

\* the courses resolved from the first k of the requirements, in order
RECURSIVE courses_of_first(_, _, _)
courses_of_first(k, requirements, course_by_code) ==
    IF k <= 0 \/ requirements = <<>> THEN <<>>
    ELSE resolve_requirements(Head(requirements), course_by_code).courses
         \o courses_of_first(k - 1, Tail(requirements), course_by_code)

\* the children are distinct course leaves that the index holds
distinct_indexed_courses(requirements, course_by_code) ==
    /\ \A i \in DOMAIN requirements :
          /\ requirements[i].type = "COURSE"
          /\ requirements[i].code \in DOMAIN course_by_code
    /\ \A i, k \in DOMAIN requirements : i # k => requirements[i].code # requirements[k].code

\* C30: on CHOOSE_N resolve_requirements returns the courses resolved from the
\* first min(n, len(children)) children, concatenated in order; n courses when
\* the children are n or more distinct course leaves of the index
C30_ChooseNResolvesFirstN ==
    (fn_pc = "out" /\ fn_in.req_node.type = "CHOOSE_N") =>
        LET n == fn_in.req_node.choose_n
            children == fn_in.req_node.requirements
        IN /\ fn_out.courses = courses_of_first(n, children, fn_in.course_by_code)
           /\ (Len(children) >= n /\ distinct_indexed_courses(children, fn_in.course_by_code))
                 => /\ Len(fn_out.courses) = n
                    /\ \A i \in 1..n : fn_out.courses[i] = children[i].code

\* two of three courses are taken, the first two
C30_Witness ==
    /\ fn_pc = "out"
    /\ fn_in.req_node = ChooseNNode(2, <<CourseNode("A", "COMPLETED"),
                                         CourseNode("B", "COMPLETED"),
                                         CourseNode("C", "COMPLETED")>>)
    /\ "C" \in DOMAIN fn_in.course_by_code
    /\ fn_out.courses = <<"A", "B">>

-----------------------------------------------------------------------------
(* CONCURRENT edges in generate_semesters *)

\* the concurrent half of the graph that build_dependency_graph built for the run
concurrent_graph ==
    build_concurrent_graph(legacy_args.required_courses, legacy_args.concurrents)

\* C31: every required course X with a CONCURRENT edge to a required course Y is
\* placed in a semester that holds Y or that follows a semester holding Y
C31_ConcurrentSameTermOrEarlier ==
    legacy_pc \in {"generate", "done"} =>
        \A i \in DOMAIN gen.semesters : \A X \in gen_courses(i) :
            \A Y \in get_concurrent_requirements(concurrent_graph, X) :
                \E k \in 1..i : Y \in gen_courses(k)

\* generate_semesters returned a schedule with A in an earlier semester than D,
\* which A names as a concurrent requirement
C31_ConcurrentPlacedLater ==
    /\ legacy_pc = "done"
    /\ "D" \in get_concurrent_requirements(concurrent_graph, "A")
    /\ \E i, k \in DOMAIN gen.semesters : i < k /\ "A" \in gen_courses(i) /\ "D" \in gen_courses(k)

-----------------------------------------------------------------------------
(* The edges of schedule_courses *)

\* the codes of the COURSE leaves of the raw prerequisite trees of a catalog
\* course, whatever the node above them and whatever their timing
raw_leaves(c) ==
    UNION {codes_in_subtree(get_course(c).requisite[i]) : i \in DOMAIN get_course(c).requisite}

\* schedule_courses has built its graph
graph_built == pc \in {"loop", "done"} \/ (pc = "failed" /\ error = "RuntimeError")

\* C32: the prerequisites of a required catalog course are the COURSE leaves of
\* its raw trees that are required and not completed, no more and no fewer; a
\* remaining course with none of them left to place is available, so a leaf
\* outside the required set holds no course back
C32_EdgesAreRequiredRawLeaves ==
    /\ graph_built =>
           \A c \in required_set :
               has_course(c) => prereq_map[c] = raw_leaves(c) \cap required_set
    /\ pc = "loop" =>
           \A c \in remaining : (raw_leaves(c) \cap remaining = {}) => c \in available

\* B names A or C; A is completed, so the OR is satisfied, yet B keeps the edge
\* to the required C and none to A
C32_Witness ==
    /\ pc = "done"
    /\ get_course("B").requisite = <<Or(<<Course("A"), Course("C")>>)>>
    /\ config.completed_course_work = {"A"}
    /\ {"B", "C"} \subseteq required_set
    /\ prereq_map["B"] = {"C"}

-----------------------------------------------------------------------------
(* The order of the courses of a term *)

\* the list is in ascending order of course code
ascending(list) ==
    \A i, k \in DOMAIN list : i < k => code_rank(list[i]) < code_rank(list[k])

\* C33: schedule_courses lists the courses of every term in ascending order of
\* course code, whatever the order in which the set available is iterated, so
\* that the schedule is a function of the catalog, the required set and the
\* student state
C33_TermsInCodeOrder ==
    \A i \in DOMAIN semesters : ascending(semesters[i])

\* the run on the program of A, B and C without prerequisites, all offered in
\* every term, nothing completed, from fall 2025
three_free_courses ==
    /\ config.program.requisite = <<Course("A"), Course("B"), Course("C")>>
    /\ config.completed_course_work = {}
    /\ config.start_year = 2025 /\ config.start_term = "fall"
    /\ \A c \in Codes : get_course(c) = ParsedCourse(Empty, "fall_and_spring")

\* one run of three_free_courses returned the term A, B, C
C33_ReturnedInCodeOrder ==
    three_free_courses /\ pc = "done" /\ semesters = <<(<<"A", "B", "C">>)>>

\* another run of three_free_courses returned the term C, A, B
C33_ReturnedInAnotherOrder ==
    three_free_courses /\ pc = "done" /\ semesters = <<(<<"C", "A", "B">>)>>

-----------------------------------------------------------------------------
(* Completed courses in schedule_courses *)

\* the step of schedule_courses that builds the graph and the in-degrees
graph_step == pc = "expand" /\ pc' = "loop"

\* the in-degree of d counts the required raw leaves of d that are not completed
initial_in_degree_without_completed ==
    \A d \in DOMAIN in_degree' :
        in_degree'[d] = Cardinality((raw_leaves(d) \cap all_required)
                                       \ config.completed_course_work)

\* C34: a completed course is in no term, is not waiting to be placed and is no
\* prerequisite in the graph, and the initial in-degree of every course counts
\* no completed course, also when the completed course is a course of the
\* program or a leaf of the raw tree of a required course
C34_CompletedNeverPlacedNorCounted ==
    /\ [](\A c \in config.completed_course_work :
             /\ \A i \in DOMAIN semesters : c \notin semester_courses(i)
             /\ c \notin remaining \cup available
             /\ c \notin DOMAIN in_degree
             /\ \A d \in DOMAIN prereq_map : c \notin prereq_map[d])
    /\ [][graph_step => initial_in_degree_without_completed]_vars

\* A is completed, is a course of the program and the prerequisite of B: B is
\* placed in the first term and A in none
C34_Witness ==
    /\ pc = "done"
    /\ config.completed_course_work = {"A"}
    /\ "A" \in initial_courses
    /\ get_course("B").requisite = <<Course("A")>>
    /\ Len(semesters) >= 1 /\ "B" \in semester_courses(1)
    /\ prereq_map["B"] = {}

-----------------------------------------------------------------------------
(* simplify_requirement and its arguments *)

\* a step that calls simplify_requirement
simplify_called == sim_pc' # sim_pc

\* the tree given to the call of this step
tree_given == IF sim_pc = "once" /\ sim_pc' = "twice" THEN sim_out1 ELSE sim_req

\* the same tree after the step
tree_left == IF sim_pc = "once" /\ sim_pc' = "twice" THEN sim_out1' ELSE sim_req'

-----------------------------------------------------------------------------
(* check_prerequisites_satisfied in generate_semesters *)

\* what the claim says of the results of one call
result_as_claimed(course_code, completed_courses) ==
    LET results == check_prerequisites_result(course_code, graph, completed_courses)
        missing == {p \in get_prerequisites(graph, course_code) : p \notin completed_courses}
    IN /\ results # {}
       /\ \A r \in results :
             /\ r.satisfied <=> missing = {}
             /\ r.satisfied => r.message = <<>>
             /\ ~r.satisfied => \E p \in missing : r.message = <<"Requires", p>>

\* C36: check_prerequisites_satisfied returns (True, None) exactly when every
\* REQUIRES prerequisite of the course is completed and otherwise False with a
\* message that names a missing prerequisite; every course of a semester of
\* generate_semesters has all its REQUIRES prerequisites in earlier semesters
C36_PrerequisitesInEarlierSemesters ==
    legacy_pc \in {"generate", "done"} =>
        /\ \A c \in required_upper : result_as_claimed(c, gen.completed_courses)
        /\ \A i \in DOMAIN gen.semesters : \A c \in gen_courses(i) :
              \A p \in get_prerequisites(graph, c) : \E k \in 1..(i - 1) : p \in gen_courses(k)

\* B requires A; the two would fit into one semester, and B is in the second
C36_Witness ==
    /\ legacy_pc = "done"
    /\ legacy_args.credits_per_semester = 7
    /\ get_prerequisites(graph, "B") = {"A"}
    /\ Len(gen.semesters) >= 2
    /\ "A" \in gen_courses(1)
    /\ "B" \in gen_courses(2)
    /\ sum_of_credits({"A", "B"}) <= 7

-----------------------------------------------------------------------------
(* The set the expansion loop ends with *)

\* the COURSE leaves of a program node that only ANDs separate from the top
RECURSIVE direct_courses_of(_)
direct_courses_of(node) ==
    CASE node.type = "COURSE" -> {node.course}
      [] node.type = "AND" ->
            UNION {direct_courses_of(node.requirements[i]) : i \in DOMAIN node.requirements}
      [] OTHER -> {}

\* the direct courses of the program
direct_courses ==
    UNION {direct_courses_of(config.program.requisite[i]) : i \in DOMAIN config.program.requisite}

\* the codes anywhere in the simplified AND of the prerequisite list of a catalog
\* course, under the student state
simplified_codes(c) == codes_in_subtree(simplify(And(get_course(c).requisite)))

\* S with the simplified codes of its catalog members
one_round(S) == S \cup UNION {simplified_codes(c) : c \in {x \in S : has_course(x)}}

\* the least set that contains S and is closed under one_round
RECURSIVE closure(_)
closure(S) == IF one_round(S) = S THEN S ELSE closure(one_round(S))

\* the expansion loop has ended
expansion_ended == pc \in {"loop", "done", "failed"} \/ (pc = "expand" /\ new_courses = {})

\* C37: when the expansion loop has ended, all_required is the least set that
\* holds the direct courses of the program and, with every catalog course in
\* it, every course code of that course's simplified prerequisite tree
C37_AllRequiredIsLeastClosedSet ==
    expansion_ended => all_required = closure(direct_courses)

\* the OR at the top of the program adds neither C nor X; B names A or C, neither
\* completed, and both branches are required
C37_Witness ==
    /\ pc = "done"
    /\ config.program.requisite
          = <<And(<<Course("A"), Course("B")>>), Or(<<Course("C"), Course("X")>>)>>
    /\ config.completed_course_work = {}
    /\ get_course("B").requisite = <<Or(<<Course("A"), Course("C")>>)>>
    /\ all_required = {"A", "B", "C"}

-----------------------------------------------------------------------------
(* The loop invariant of schedule_courses *)

\* the prerequisites of c that are not yet placed
unplaced_prerequisites(c) == {p \in prereq_map[c] : p \in remaining}

\* the dependents reverse_map records for p, none when p is no key
recorded_dependents(p) == IF p \in DOMAIN reverse_map THEN reverse_map[p] ELSE {}

\* C38: whenever the while loop of schedule_courses tests its condition,
\* available is a subset of remaining, the in-degree of every remaining course is
\* the number of its prerequisites still remaining, available is the set of the
\* remaining courses of in-degree 0, no in-degree is negative, and reverse_map
\* holds c for p exactly when prereq_map holds p for c
C38_LoopInvariant ==
    pc = "loop" =>
        /\ available \subseteq remaining
        /\ \A c \in remaining : in_degree[c] = Cardinality(unplaced_prerequisites(c))
        /\ available = {c \in remaining : in_degree[c] = 0}
        /\ \A c \in DOMAIN in_degree : in_degree[c] >= 0
        /\ \A c \in DOMAIN prereq_map : \A p \in prereq_map[c] : c \in recorded_dependents(p)
        /\ \A p \in DOMAIN reverse_map : \A c \in reverse_map[p] :
              c \in DOMAIN prereq_map /\ p \in prereq_map[c]

\* the loop is entered again after a term that placed A and made B available,
\* with C still waiting for B
C38_Witness ==
    /\ pc = "loop"
    /\ Len(semesters) = 1
    /\ semesters[1] = <<"A">>
    /\ available = {"B"}
    /\ remaining = {"B", "C"}
    /\ in_degree["C"] = 1
    /\ prereq_map["C"] = {"A", "B"}

\* ---------------------------------------------------------------------------
\* C39: the report's term for a semester and the clock of schedule_courses
\* ---------------------------------------------------------------------------

\* the schedule was returned and main has reported it
schedule_reported == pc = "done"

\* the report's term for every returned semester is the term it was placed in
report_terms_are_clock_terms ==
    \A i \in DOMAIN semesters : report_term(i) = clock_log[i]

\* C39: when main reports a schedule that schedule_courses returned, the term it
\* recomputes for the i-th semester from the index i is the term under which
\* schedule_courses placed that semester, and the report logs no pattern violation
C39_ReportTermIsClockTerm ==
    schedule_reported => (report_terms_are_clock_terms /\ report = {})

\* a reported schedule of two consecutive terms, none skipped, whose second semester
\* the report dates to another term than the clock, and for which it logs a violation
C39_FalseViolationReported ==
    /\ schedule_reported
    /\ Len(semesters) = 2
    /\ semester_term(2) = semester_term(1) + 1
    /\ report_term(1) = clock_log[1]
    /\ report_term(2) # clock_log[2]
    /\ report # {}

\* ---------------------------------------------------------------------------
\* C40: how long an available course waits for a term its pattern allows
\* ---------------------------------------------------------------------------

\* the patterns without a fall or spring term
never_offered(pattern) == lower(pattern) \in {"summer", "summer_even", "summer_odd", "deactivated"}

\* the patterns tied to the parity of the year
parity_pattern(pattern) == lower(pattern) \in {"fall_even", "fall_odd", "spring_even", "spring_odd"}

\* the term advances within which C40 says a course of this pattern is placed
advances_allowed(pattern) == IF parity_pattern(pattern) THEN 4 ELSE 2

\* the term in which course c entered available: the start term when it has no
\* prerequisite to take (line 724), else the term in which the last of them was
\* placed (lines 752-755)
became_available(c) ==
    LET start == term_index(config.start_term = "spring", config.start_year)
        placed == {semester_term(j) : j \in UNION {semesters_of(p) : p \in prereq_map[c]}}
    IN CHOOSE t \in placed \cup {start} : \A u \in placed \cup {start} : u <= t

\* the courses C40 is about: in the catalog, with a pattern that has a fall or spring term
waits_for_a_term(c) == has_course(c) /\ ~never_offered(get_course(c).pattern)

\* every placed course was placed within the allowed number of term advances
placed_in_time ==
    \A i \in DOMAIN semesters : \A c \in semester_courses(i) :
        waits_for_a_term(c) =>
            semester_term(i) - became_available(c) <= advances_allowed(get_course(c).pattern)

\* no course still in available has seen more than the allowed number of term advances
waiting_in_time ==
    pc = "loop" =>
        \A c \in available :
            waits_for_a_term(c) =>
                term_index(is_spring, year) - became_available(c)
                    <= advances_allowed(get_course(c).pattern)

\* among the terms that follow any term, the allowed number holds one the pattern allows
pattern_recurs ==
    \A pattern \in {q \in PatternInputs : ~never_offered(q)} :
        \A spring \in BOOLEAN : \A yr \in Years :
            \E k \in 1..advances_allowed(pattern) :
                LET t == term_at(term_index(spring, yr) + k)
                IN pattern_allows(pattern, t[1], t[2])

\* C40: in schedule_courses, a course whose pattern is neither summer, summer_even,
\* summer_odd nor deactivated is placed within at most four term advances of the
\* term in which it became available, and within at most two when its pattern is
\* fall, spring, fall_and_spring, irregular, arranged or unknown
C40_AvailableCoursePlacedInTime ==
    /\ placed_in_time
    /\ waiting_in_time
    /\ pattern_recurs

\* a returned schedule in which a course with a parity pattern was placed four term
\* advances after the term of its last prerequisite
C40_Witness ==
    /\ pc = "done"
    /\ \E i \in DOMAIN semesters : \E c \in semester_courses(i) :
          /\ parity_pattern(get_course(c).pattern)
          /\ prereq_map[c] # {}
          /\ semester_term(i) - became_available(c) = 4

\* a returned schedule in which a course offered every spring was placed two term
\* advances after the term of its last prerequisite
C40_WitnessTwoAdvances ==
    /\ pc = "done"
    /\ \E i \in DOMAIN semesters : \E c \in semester_courses(i) :
          /\ get_course(c).pattern \in {"fall", "spring"}
          /\ prereq_map[c] # {}
          /\ semester_term(i) - became_available(c) = 2

====
